---- MODULE Spec2Model ----
(***************************************************************************)
(* Model of the query / aggregation / cache-aside core of the retail       *)
(* unit-economics API:                                                      *)
(*   src/app/db/mongo_client.py      QueryBuilder, AggregateBuilder         *)
(*   src/app/db/redis_client.py      RedisClient                            *)
(*   src/app/services/*.py           BaseService and the domain services    *)
(***************************************************************************)
EXTENDS Integers, Sequences, FiniteSets, TLC

VARIABLES
    \* ---- document store, as seen by one QueryBuilder ----
    collection,       \* documents of the builder's collection, in natural order
    store,            \* store[c]: the identifiers that exist in target collection c
    \* ---- QueryBuilder fields (mongo_client.py:266-272) ----
    _limit, _skip, _sort, _populate_fields,
    \* ---- outcome of QueryBuilder.exec() ----
    qb_status,        \* "building" | "ok" | "TypeError"
    qb_page,          \* what the find of exec() produced
    qb_out,           \* the documents exec() returned
    qb_calls,         \* the store round trips exec() issued, in order
    qb_log,           \* the limit / skip / sort calls made on the builder
    \* ---- the document database read by aggregations and services ----
    db,               \* db[c]: the documents of collection c, in natural order
    \* ---- AggregateBuilder (mongo_client.py:211-214) ----
    pipeline,         \* AggregateBuilder.pipeline
    ab_collection,    \* the collection the builder was created on
    ab_calls,         \* the builder calls made so far, in call order
    ab_status,        \* "building" | "ok" | "error"
    ab_sent,          \* the pipeline exec() handed to collection.aggregate
    ab_out,           \* the documents exec() returned
    \* ---- Redis, BigQuery and the service calls made so far ----
    cache,            \* Redis: a set of entries [key, text, ttl]
    bq,               \* the rows of the BigQuery orders table
    returned,         \* per cached key, what the call that stored it returned
    shadow,           \* per key, the last non-empty value set and not expired
    ncalls,           \* number of operations performed
    prev,             \* the operation before the last one
    last,             \* the last operation, with its outcome
    \* ---- concurrent get_lgas requests ----
    reqs,             \* reqs[r]: where request r stands and what it has read
    written,          \* the results written to the cache, in write order
    \* ---- the environment of the calls ----
    outage,           \* the calls that fail at present: "cache_get", "cache_set",
                      \* "mongo", "bigquery", "find", "fetch_" \o field
    \* ---- one BigQueryClient.execute_query call seen attempt by attempt ----
    eq,               \* what each attempt would meet, and how the call ended
    \* ---- one store query seen second by second ----
    tq,               \* how long the query takes and how long the caller waited
    \* ---- the event loop of one worker ----
    loop              \* loop[r]: the handler of request r, call by call

qbVars == <<collection, store, _limit, _skip, _sort, _populate_fields,
            qb_status, qb_page, qb_out, qb_calls, qb_log>>

abVars == <<pipeline, ab_collection, ab_calls, ab_status, ab_sent, ab_out>>

svcVars == <<cache, bq, returned, shadow, ncalls, prev, last>>

concVars == <<reqs, written>>

envVars == <<outage, eq, tq, loop>>

vars == <<qbVars, db, abVars, svcVars, concVars, envVars>>

-----------------------------------------------------------------------------
(* Bounds of the model *)

MaxLen == 2        \* longest list-valued reference field
MaxDocs == 2       \* most documents in the builder's collection
MaxPop == 2        \* most populate() calls on one builder
MaxStages == 4     \* most stages appended to one AggregateBuilder
MaxRows == 2       \* most documents in a collection read by a service
MaxCalls == 3      \* most cache or service operations in one behaviour
MaxReqs == 2       \* most concurrent requests on one cache key
MaxSets == 3       \* most limit / skip / sort calls on one builder
MaxAttempts == 3   \* most attempts of one query whose outcome is told apart
MaxOver == 2       \* most seconds a query takes beyond the query timeout
MaxPage == 3       \* highest page number requested

\* settings.REDIS_TTL, in seconds
REDIS_TTL == 3600

-----------------------------------------------------------------------------
(* Values.  A stored value is a raw identifier, a list, or (after          *)
(* population) a referenced document; every value is a tagged record so    *)
(* that any two values can be compared.                                     *)

Ids == {1, 2}                      \* the identifiers used as references
Colls == {"a", "b"}                \* target collections
Fields == {"a", "b"}               \* reference fields of the documents

\* Every target collection holds one of the identifiers and lacks the other,
\* so each reference resolves in one collection and dangles in the other.
StoreContents == [c \in Colls |-> IF c = "a" THEN {1} ELSE {2}]

Id(i) == [t |-> "id", v |-> i]
RefDoc(i, c) == [t |-> "doc", _id |-> i, coll |-> c]
List(s) == [t |-> "list", items |-> s]

IsList(v) == v.t = "list"          \* isinstance(value, list)
IsDict(v) == v.t = "doc"           \* a dict: unhashable

SeqsUpTo(S, n) == UNION {[1..k -> S] : k \in 0..n}

\* values a reference field can hold in the store
ScalarRefs == {Id(i) : i \in Ids}
ListRefs == {List(s) : s \in SeqsUpTo(ScalarRefs, MaxLen)}

\* A document of the collection: _id, and optionally the fields a and b.
MkDoc(k, fs, av, bv) ==
    [f \in {"_id"} \cup fs |->
        IF f = "_id" THEN Id(k) ELSE IF f = "a" THEN av ELSE bv]

DocShapes ==
    {<<{}, Id(1), Id(1)>>}
    \cup {<<{"a"}, av, Id(1)>> : av \in ScalarRefs \cup ListRefs}
    \cup {<<{"b"}, Id(1), bv>> : bv \in ScalarRefs}
    \cup {<<{"a", "b"}, av, bv>> : av \in ScalarRefs, bv \in ScalarRefs}

Collections ==
    {[k \in 1..Len(sh) |-> MkDoc(k, sh[k][1], sh[k][2], sh[k][3])] :
        sh \in SeqsUpTo(DocShapes, MaxDocs)}

-----------------------------------------------------------------------------
(* The store's find, as pymongo evaluates a cursor: sort, then skip, then  *)
(* limit (0 = unbounded), whatever the order of the cursor calls.           *)

Reverse(s) == [k \in 1..Len(s) |-> s[Len(s) + 1 - k]]

\* cursor.sort: the documents are stored in ascending _id order
SortDocs(docs, sort) == IF sort = "desc" THEN Reverse(docs) ELSE docs

SkipDocs(docs, n) ==
    IF n >= Len(docs) THEN <<>> ELSE SubSeq(docs, n + 1, Len(docs))

LimitDocs(docs, n) ==
    IF n >= Len(docs) THEN docs ELSE SubSeq(docs, 1, n)

\* QueryBuilder.exec, get_documents(): skip, limit and sort are applied only
\* when truthy (non-zero, not None)
get_documents(docs, skip, limit, sort) ==
    LET sorted == IF sort # "None" THEN SortDocs(docs, sort) ELSE docs
        skipped == IF skip # 0 THEN SkipDocs(sorted, skip) ELSE sorted
    IN  IF limit # 0 THEN LimitDocs(skipped, limit) ELSE skipped

-----------------------------------------------------------------------------
(* QueryBuilder.exec: batch population, one registered field at a time.    *)

SeqToSet(s) == {s[k] : k \in DOMAIN s}

\* the values ref_ids.add / ref_ids.update would hash for one document
FieldRefs(doc, field) ==
    IF field \notin DOMAIN doc THEN {}
    ELSE IF IsList(doc[field]) THEN SeqToSet(doc[field].items)
    ELSE {doc[field]}

\* ref_ids of one field over the whole page (lines 315-322)
ref_ids(docs, field) == UNION {FieldRefs(docs[k], field) : k \in DOMAIN docs}

\* set.add / set.update raise TypeError on a dict (an already populated value)
Unhashable(docs, field) == \E v \in ref_ids(docs, field) : IsDict(v)

\* get_fetched_docs(): find({"_id": {"$in": list(ref_ids)}}) on the target
\* collection, as the mapping _id -> document (lines 328-332)
fetched_mapping(ids, target) ==
    [v \in {w \in ids : w.t = "id" /\ w.v \in store[target]} |->
        RefDoc(v.v, target)]

\* fetched_mapping.get(v, v) with the default forgotten: a missing reference
\* becomes null (the behaviour of the commented-out code, lines 343-352)
MapGet_noDefault(m, v) == IF v \in DOMAIN m THEN m[v] ELSE [t |-> "null"]

\* list population that keeps only the references that resolved
Substitute_filter(doc, field, m) ==
    IF field \notin DOMAIN doc THEN doc
    ELSE IF IsList(doc[field])
         THEN [doc EXCEPT ![field] =
                  List(SelectSeq(doc[field].items, LAMBDA v : v \in DOMAIN m))]
         ELSE [doc EXCEPT ![field] = IF doc[field] \in DOMAIN m
                                      THEN m[doc[field]] ELSE doc[field]]

\* fetched_mapping.get(v, v)
MapGet(m, v) == IF v \in DOMAIN m THEN m[v] ELSE v

\* lines 334-340 for one document
Substitute(doc, field, m) ==
    IF field \notin DOMAIN doc THEN doc
    ELSE IF IsList(doc[field])
         THEN [doc EXCEPT ![field] =
                  List([i \in DOMAIN doc[field].items |->
                            MapGet(m, doc[field].items[i])])]
         ELSE [doc EXCEPT ![field] = MapGet(m, doc[field])]

\* the round trip that fetches the referenced documents of field
FetchCall(field, target, ids) ==
    [op |-> "find_in", field |-> field, coll |-> target, ids |-> ids]

\* a loop that leaves a field unpopulated when its fetch fails, and goes on
PopulateField_skip(st, field, target) ==
    IF st.status # "ok" THEN st
    ELSE IF Unhashable(st.docs, field)
         THEN [st EXCEPT !.status = "TypeError"]
    ELSE LET ids == ref_ids(st.docs, field) IN
         IF ids = {} THEN st
         ELSE IF ("fetch_" \o field) \in outage
         THEN [st EXCEPT !.calls = Append(st.calls, FetchCall(field, target, ids))]
         ELSE LET m == fetched_mapping(ids, target) IN
              [docs   |-> [k \in DOMAIN st.docs |->
                              Substitute(st.docs[k], field, m)],
               calls  |-> Append(st.calls, FetchCall(field, target, ids)),
               status |-> "ok"]

\* the loop without `if not ref_ids: continue`: the target collection is
\* queried even for an empty candidate set
PopulateField_eager(st, field, target) ==
    IF st.status # "ok" THEN st
    ELSE IF Unhashable(st.docs, field)
         THEN [st EXCEPT !.status = "TypeError"]
    ELSE LET ids == ref_ids(st.docs, field)
             m == fetched_mapping(ids, target)
         IN  [docs   |-> [k \in DOMAIN st.docs |->
                             Substitute(st.docs[k], field, m)],
              calls  |-> Append(st.calls, FetchCall(field, target, ids)),
              status |-> "ok"]

\* population as an inner join: a document none of whose references of the
\* field resolved is dropped from the page
PopulateField_join(st, field, target) ==
    IF st.status # "ok" THEN st
    ELSE IF Unhashable(st.docs, field)
         THEN [st EXCEPT !.status = "TypeError"]
    ELSE LET ids == ref_ids(st.docs, field) IN
         IF ids = {} THEN st
         ELSE LET m == fetched_mapping(ids, target)
                  kept == SelectSeq(st.docs, LAMBDA d :
                              field \notin DOMAIN d
                              \/ FieldRefs(d, field) \cap DOMAIN m # {})
              IN  [docs   |-> [k \in DOMAIN kept |->
                                  Substitute(kept[k], field, m)],
                   calls  |-> Append(st.calls, FetchCall(field, target, ids)),
                   status |-> "ok"]

\* one iteration of the loop over _populate_fields (lines 314-340); the
\* exception of a failed get_fetched_docs() is not caught (line 331)
PopulateField(st, field, target) ==
    IF st.status # "ok" THEN st
    ELSE IF Unhashable(st.docs, field)
         THEN [st EXCEPT !.status = "TypeError"]
    ELSE LET ids == ref_ids(st.docs, field) IN
         IF ids = {} THEN st                       \* if not ref_ids: continue
         ELSE IF ("fetch_" \o field) \in outage
         THEN [st EXCEPT !.calls = Append(st.calls, FetchCall(field, target, ids)),
                         !.status = "StoreError"]
         ELSE LET m == fetched_mapping(ids, target) IN
              [docs   |-> [k \in DOMAIN st.docs |->
                              Substitute(st.docs[k], field, m)],
               calls  |-> Append(st.calls,
                            [op |-> "find_in", field |-> field,
                             coll |-> target, ids |-> ids]),
               status |-> "ok"]

RECURSIVE PopulateFrom(_, _, _)
PopulateFrom(st, regs, i) ==
    IF i > Len(regs) THEN st
    ELSE PopulateFrom(PopulateField(st, regs[i][1], regs[i][2]), regs, i + 1)

RECURSIVE PopulateFrom_eager(_, _, _)
PopulateFrom_eager(st, regs, i) ==
    IF i > Len(regs) THEN st
    ELSE PopulateFrom_eager(PopulateField_eager(st, regs[i][1], regs[i][2]),
                            regs, i + 1)

\* exec without `if not documents: return documents` and without the check
\* of the candidate set: every registered field is fetched for every page
ExecResult_eager(docs, skip, limit, sort, regs) ==
    LET documents == get_documents(docs, skip, limit, sort)
        st0 == [docs |-> documents,
                calls |-> <<[op |-> "find", field |-> "", coll |-> "main",
                             ids |-> {}]>>,
                status |-> "ok"]
    IN  IF "find" \in outage
        THEN [st0 EXCEPT !.docs = <<>>, !.status = "StoreError"]
        ELSE PopulateFrom_eager(st0, regs, 1)

\* QueryBuilder.exec (lines 297-341)
ExecResult(docs, skip, limit, sort, regs) ==
    LET documents == get_documents(docs, skip, limit, sort)
        st0 == [docs |-> documents,
                calls |-> <<[op |-> "find", field |-> "", coll |-> "main",
                             ids |-> {}]>>,
                status |-> "ok"]
    IN  IF "find" \in outage                     \* get_documents() raises
        THEN [st0 EXCEPT !.docs = <<>>, !.status = "StoreError"]
        ELSE IF documents = <<>> THEN st0        \* if not documents: return
        ELSE PopulateFrom(st0, regs, 1)

-----------------------------------------------------------------------------
(* QueryBuilder operations *)

\* QueryBuilder.populate (lines 286-295): target_collection or field
QB_populate(field, target_collection) ==
    /\ qb_status = "building"
    /\ Len(_populate_fields) < MaxPop
    /\ _populate_fields' = Append(_populate_fields,
            <<field, IF target_collection = "None" THEN field
                     ELSE target_collection>>)
    /\ UNCHANGED <<collection, store, _limit, _skip, _sort,
                   qb_status, qb_page, qb_out, qb_calls, qb_log>>
    /\ UNCHANGED <<db, envVars, abVars, svcVars, concVars>>

\* QueryBuilder.exec
QB_exec ==
    /\ qb_status = "building"
    /\ LET r == ExecResult(collection, _skip, _limit, _sort, _populate_fields)
       IN  /\ qb_status' = r.status
           /\ qb_page' = IF "find" \in outage THEN <<>>
                         ELSE get_documents(collection, _skip, _limit, _sort)
           /\ qb_out' = IF r.status = "ok" THEN r.docs ELSE <<>>
           /\ qb_calls' = r.calls
    /\ UNCHANGED <<collection, store, _limit, _skip, _sort, _populate_fields,
                   qb_log>>
    /\ UNCHANGED <<db, envVars, abVars, svcVars, concVars>>

\* QueryBuilder.limit (lines 274-276) summing the limits instead of
\* replacing the option
QB_limit_accumulate(limit) ==
    /\ qb_status = "building"
    /\ Len(qb_log) < MaxSets
    /\ _limit' = _limit + limit
    /\ qb_log' = Append(qb_log, [method |-> "limit", arg |-> limit])
    /\ UNCHANGED <<collection, store, _skip, _sort, _populate_fields,
                   qb_status, qb_page, qb_out, qb_calls>>
    /\ UNCHANGED <<db, envVars, abVars, svcVars, concVars>>

\* QueryBuilder.limit (lines 274-276): self._limit = limit
QB_limit(limit) ==
    /\ qb_status = "building"
    /\ Len(qb_log) < MaxSets
    /\ _limit' = limit
    /\ qb_log' = Append(qb_log, [method |-> "limit", arg |-> limit])
    /\ UNCHANGED <<collection, store, _skip, _sort, _populate_fields,
                   qb_status, qb_page, qb_out, qb_calls>>
    /\ UNCHANGED <<db, envVars, abVars, svcVars, concVars>>

\* QueryBuilder.skip (lines 278-280): self._skip = skip
QB_skip(skip) ==
    /\ qb_status = "building"
    /\ Len(qb_log) < MaxSets
    /\ _skip' = skip
    /\ qb_log' = Append(qb_log, [method |-> "skip", arg |-> skip])
    /\ UNCHANGED <<collection, store, _limit, _sort, _populate_fields,
                   qb_status, qb_page, qb_out, qb_calls>>
    /\ UNCHANGED <<db, envVars, abVars, svcVars, concVars>>

\* QueryBuilder.sort (lines 282-284): self._sort = sort
QB_sort(sort) ==
    /\ qb_status = "building"
    /\ Len(qb_log) < MaxSets
    /\ _sort' = sort
    /\ qb_log' = Append(qb_log, [method |-> "sort", arg |-> sort])
    /\ UNCHANGED <<collection, store, _limit, _skip, _populate_fields,
                   qb_status, qb_page, qb_out, qb_calls>>
    /\ UNCHANGED <<db, envVars, abVars, svcVars, concVars>>

\* QueryBuilder.exec_one (lines 354-372).  self.collection is a pymongo
\* Collection: find_one runs the query and returns a dict or None, and the
\* await of that value raises TypeError, for a match and for no match alike;
\* lines 356-372 are never reached
QB_exec_one ==
    /\ qb_status = "building"
    /\ qb_status' = IF "find" \in outage THEN "StoreError" ELSE "TypeError"
    /\ qb_page' = IF "find" \in outage \/ collection = <<>> THEN <<>>
                  ELSE <<collection[1]>>
    /\ qb_out' = <<>>
    /\ qb_calls' = <<[op |-> "find_one", field |-> "", coll |-> "main",
                      ids |-> {}]>>
    /\ UNCHANGED <<collection, store, _limit, _skip, _sort, _populate_fields,
                   qb_log>>
    /\ UNCHANGED <<db, envVars, abVars, svcVars, concVars>>

\* the populate() calls made by callers: populate("a"), populate("a", "b"),
\* populate("b")
PopulateCalls == {<<"a", "None">>, <<"a", "b">>, <<"b", "None">>}

QBInit ==
    /\ collection \in Collections
    /\ store = StoreContents
    /\ _limit = 0
    /\ _skip = 0
    /\ _sort = "None"
    /\ _populate_fields = <<>>
    /\ qb_status = "building"
    /\ qb_page = <<>>
    /\ qb_out = <<>>
    /\ qb_calls = <<>>
    /\ qb_log = <<>>

\* a QueryBuilder that is never used
QBIdle ==
    /\ collection = <<>>
    /\ store = StoreContents
    /\ _limit = 0
    /\ _skip = 0
    /\ _sort = "None"
    /\ _populate_fields = <<>>
    /\ qb_status = "idle"
    /\ qb_page = <<>>
    /\ qb_out = <<>>
    /\ qb_calls = <<>>
    /\ qb_log = <<>>

-----------------------------------------------------------------------------
(* Python / BSON values of the service layer.  Text is a sequence of        *)
(* characters; ObjectId and datetime are the store-native types.            *)

Null == [t |-> "null"]                       \* None
Str(cs) == [t |-> "str", s |-> cs]           \* a str, as its characters
Num(n) == [t |-> "num", n |-> n]
ObjectId(i) == [t |-> "oid", v |-> i]        \* bson.ObjectId
Date(d) == [t |-> "date", v |-> d]           \* datetime
Sub(d) == [t |-> "dict", d |-> d]            \* a dict / embedded document

\* Python truthiness of a value: None, empty list, empty dict, "" and 0 are falsy
Truthy(v) ==
    CASE v.t = "null" -> FALSE
      [] v.t = "list" -> v.items # <<>>
      [] v.t = "dict" -> DOMAIN v.d # {}
      [] v.t = "str"  -> v.s # <<>>
      [] v.t = "num"  -> v.n # 0
      [] OTHER -> TRUE

\* code points of the characters used in names and parameters
CharRank(c) ==
    CASE c = "-" -> 45 [] c = "A" -> 65 [] c = "N" -> 78 [] c = "_" -> 95
      [] c = "a" -> 97 [] c = "b" -> 98 [] c = "c" -> 99 [] c = "e" -> 101
      [] c = "n" -> 110 [] c = "o" -> 111 [] OTHER -> 0

Lower(c) == CASE c = "A" -> "a" [] c = "N" -> "n" [] OTHER -> c

RECURSIVE StrLess(_, _)
StrLess(x, y) ==
    IF y = <<>> THEN FALSE
    ELSE IF x = <<>> THEN TRUE
    ELSE IF CharRank(x[1]) # CharRank(y[1]) THEN CharRank(x[1]) < CharRank(y[1])
    ELSE StrLess(Tail(x), Tail(y))

\* BSON comparison order across types, then within the type
TypeRank(v) ==
    CASE v.t = "null" -> 1 [] v.t = "num" -> 2 [] v.t = "str" -> 3
      [] v.t = "dict" -> 4 [] v.t = "list" -> 5 [] v.t = "oid" -> 7
      [] v.t = "date" -> 9 [] OTHER -> 0

ValLess(a, b) ==
    IF TypeRank(a) # TypeRank(b) THEN TypeRank(a) < TypeRank(b)
    ELSE CASE a.t = "num" -> a.n < b.n
           [] a.t = "str" -> StrLess(a.s, b.s)
           [] a.t \in {"oid", "date"} -> a.v < b.v
           [] OTHER -> FALSE

\* re.search(p, s, IGNORECASE) for a literal pattern: p occurs in s
ContainsCI(s, p) ==
    \E i \in 0..(Len(s) - Len(p)) :
        \A j \in 1..Len(p) : Lower(s[i + j]) = Lower(p[j])

-----------------------------------------------------------------------------
(* The document store's aggregate(): the stages the services use.           *)
(* A stage is [op, arg]; a document is a function from field names to       *)
(* values; a missing field reads as null.                                   *)

Stage(op, arg) == [op |-> op, arg |-> arg]

\* the field names of a dotted path
SplitPath(f) ==
    CASE f = "_id.lga" -> <<"_id", "lga">>
      [] f = "_id.brand" -> <<"_id", "brand">>
      [] f = "_id.product_category" -> <<"_id", "product_category">>
      [] f = "items.product_category" -> <<"items", "product_category">>
      [] OTHER -> <<f>>

HasField(doc, f) ==
    LET path == SplitPath(f)
    IN  /\ path[1] \in DOMAIN doc
        /\ Len(path) = 2 =>
              doc[path[1]].t = "dict" /\ path[2] \in DOMAIN doc[path[1]].d

FieldOf(doc, f) ==
    IF HasField(doc, f)
    THEN LET path == SplitPath(f)
         IN  IF Len(path) = 2 THEN doc[path[1]].d[path[2]] ELSE doc[path[1]]
    ELSE Null

\* one condition of a $match / find filter on field f
CondHolds(doc, f, c) ==
    CASE c.c = "eq"     -> FieldOf(doc, f) = c.v
      [] c.c = "in"     -> FieldOf(doc, f) \in c.vs
      [] c.c = "nin"    -> FieldOf(doc, f) \notin c.vs
      [] c.c = "exists" -> HasField(doc, f) = c.b
      [] c.c = "gte"    -> FieldOf(doc, f).t = c.v.t /\ ~ValLess(FieldOf(doc, f), c.v)
      [] c.c = "lte"    -> FieldOf(doc, f).t = c.v.t /\ ~ValLess(c.v, FieldOf(doc, f))
      [] c.c = "regex"  -> FieldOf(doc, f).t = "str"
                             /\ ContainsCI(FieldOf(doc, f).s, c.p)
      [] OTHER -> FALSE

Matches(doc, criteria) ==
    \A f \in DOMAIN criteria : CondHolds(doc, f, criteria[f])

MatchDocs(docs, criteria) == SelectSeq(docs, LAMBDA d : Matches(d, criteria))

\* $sort on one field: a stable insertion sort, dir = 1 ascending
RECURSIVE InsertSorted(_, _, _, _)
InsertSorted(sorted, d, f, dir) ==
    IF sorted = <<>> THEN <<d>>
    ELSE LET h == Head(sorted)
             before == IF dir = 1 THEN ValLess(FieldOf(d, f), FieldOf(h, f))
                       ELSE ValLess(FieldOf(h, f), FieldOf(d, f))
         IN  IF before THEN <<d>> \o sorted
             ELSE <<h>> \o InsertSorted(Tail(sorted), d, f, dir)

RECURSIVE SortBy(_, _, _)
SortBy(docs, f, dir) ==
    IF docs = <<>> THEN <<>>
    ELSE InsertSorted(SortBy(SubSeq(docs, 1, Len(docs) - 1), f, dir),
                      docs[Len(docs)], f, dir)

\* $group: _id is the document of the grouping expressions (by: key name to
\* field path), count is {"$sum": 1}; groups come out in order of first
\* appearance
GroupKey(doc, by) == Sub([k \in DOMAIN by |-> FieldOf(doc, by[k])])

RECURSIVE GroupKeys(_, _)
GroupKeys(docs, by) ==
    IF docs = <<>> THEN <<>>
    ELSE LET rest == GroupKeys(SubSeq(docs, 1, Len(docs) - 1), by)
             k == GroupKey(docs[Len(docs)], by)
         IN  IF \E i \in DOMAIN rest : rest[i] = k THEN rest
             ELSE Append(rest, k)

GroupDocs(docs, by) ==
    LET keys == GroupKeys(docs, by)
    IN  [i \in DOMAIN keys |->
            [f \in {"_id", "count"} |->
                IF f = "_id" THEN keys[i]
                ELSE Num(Cardinality({j \in DOMAIN docs :
                                         GroupKey(docs[j], by) = keys[i]}))]]

\* $project with _id: 0: keep the listed fields that exist
ProjectDocs(docs, keep) ==
    [i \in DOMAIN docs |-> [f \in DOMAIN docs[i] \cap keep |-> docs[i][f]]]

\* $count: no output document at all on empty input
CountDocs(docs, name) ==
    IF docs = <<>> THEN <<>>
    ELSE <<[f \in {name} |-> Num(Len(docs))]>>

\* $lookup: the foreign documents whose foreignField equals the document's
\* localField become the array field <as>
LookupDocs(docs, foreign, localField, foreignField, as) ==
    [i \in DOMAIN docs |->
        LET d == docs[i]
            local == FieldOf(d, localField)
            joined == SelectSeq(foreign, LAMBDA x : FieldOf(x, foreignField) = local)
        IN  [f \in DOMAIN d \cup {as} |->
                IF f = as THEN List([j \in DOMAIN joined |-> Sub(joined[j])])
                ELSE d[f]]]

\* $unwind: one output per array element, none for a missing or empty array
RECURSIVE UnwindDocs(_, _)
UnwindDocs(docs, path) ==
    IF docs = <<>> THEN <<>>
    ELSE LET d == Head(docs)
             v == FieldOf(d, path)
             out == IF v.t = "list"
                    THEN [i \in DOMAIN v.items |-> [d EXCEPT ![path] = v.items[i]]]
                    ELSE IF v.t = "null" THEN <<>> ELSE <<d>>
         IN  out \o UnwindDocs(Tail(docs), path)

AsSubs(docs) == List([i \in DOMAIN docs |-> Sub(docs[i])])

RECURSIVE RunStages(_, _, _)

\* one stage; [ok, docs], ok = FALSE when the store rejects the stage
RunStage(dbase, docs, st) ==
    CASE st.op = "$match"   -> [ok |-> TRUE, docs |-> MatchDocs(docs, st.arg)]
      [] st.op = "$group"   -> [ok |-> TRUE, docs |-> GroupDocs(docs, st.arg.by)]
      [] st.op = "$sort"    -> [ok |-> TRUE,
                                docs |-> SortBy(docs, st.arg.field, st.arg.dir)]
      [] st.op = "$project" -> [ok |-> TRUE, docs |-> ProjectDocs(docs, st.arg.keep)]
      [] st.op = "$skip"    -> [ok |-> st.arg.n >= 0,
                                docs |-> SkipDocs(docs, st.arg.n)]
      \* $limit must be positive
      [] st.op = "$limit"   -> [ok |-> st.arg.n > 0,
                                docs |-> LimitDocs(docs, st.arg.n)]
      [] st.op = "$count"   -> [ok |-> TRUE, docs |-> CountDocs(docs, st.arg.name)]
      [] st.op = "$lookup"  ->
             [ok |-> TRUE,
              docs |-> LookupDocs(docs, dbase[st.arg.from], st.arg.localField,
                                  st.arg.foreignField, st.arg.as)]
      [] st.op = "$unwind"  -> [ok |-> TRUE, docs |-> UnwindDocs(docs, st.arg.path)]
      [] st.op = "$facet"   ->
             LET data == RunStages(dbase, docs, st.arg.data)
                 total == RunStages(dbase, docs, st.arg.total)
             IN  [ok |-> data.ok /\ total.ok,
                  docs |-> <<[f \in {"data", "total"} |->
                                IF f = "data" THEN AsSubs(data.docs)
                                ELSE AsSubs(total.docs)]>>]
      [] OTHER -> [ok |-> FALSE, docs |-> <<>>]

RunStages(dbase, docs, stages) ==
    IF stages = <<>> THEN [ok |-> TRUE, docs |-> docs]
    ELSE LET r == RunStage(dbase, docs, Head(stages))
         IN  IF r.ok THEN RunStages(dbase, r.docs, Tail(stages))
             ELSE [ok |-> FALSE, docs |-> <<>>]

\* collection.aggregate(pipeline) on collection coll of database db
Aggregate(dbase, coll, stages) == RunStages(dbase, dbase[coll], stages)

-----------------------------------------------------------------------------
(* AggregateBuilder (mongo_client.py:205-251) *)

\* every builder method appends one stage and returns the builder
ABAppend(method, arg, stage) ==
    /\ ab_status = "building"
    /\ pipeline' = Append(pipeline, stage)
    /\ ab_calls' = Append(ab_calls, [m |-> method, arg |-> arg])
    /\ UNCHANGED <<ab_collection, ab_status, ab_sent, ab_out, db, envVars, qbVars, svcVars, concVars>>

\* a limit() that folds into a directly preceding $limit stage
AB_limit_fused(n) ==
    /\ ab_status = "building"
    /\ Len(pipeline) < MaxStages
    /\ pipeline' = IF pipeline # <<>> /\ pipeline[Len(pipeline)].op = "$limit"
                   THEN pipeline
                   ELSE Append(pipeline, Stage("$limit", Num(n)))
    /\ ab_calls' = Append(ab_calls, [m |-> "limit", arg |-> Num(n)])
    /\ UNCHANGED <<ab_collection, ab_status, ab_sent, ab_out, db, envVars, qbVars, svcVars, concVars>>

AB_match(criteria) ==
    /\ Len(pipeline) < MaxStages
    /\ ABAppend("match", criteria, Stage("$match", criteria))

AB_group(group_spec) ==
    /\ Len(pipeline) < MaxStages
    /\ ABAppend("group", group_spec, Stage("$group", group_spec))

AB_sort(sort_spec) ==
    /\ Len(pipeline) < MaxStages
    /\ ABAppend("sort", sort_spec, Stage("$sort", sort_spec))

AB_project(projection) ==
    /\ Len(pipeline) < MaxStages
    /\ ABAppend("project", projection, Stage("$project", projection))

AB_skip(n) ==
    /\ Len(pipeline) < MaxStages
    /\ ABAppend("skip", Num(n), Stage("$skip", Num(n)))

AB_limit(n) ==
    /\ Len(pipeline) < MaxStages
    /\ ABAppend("limit", Num(n), Stage("$limit", Num(n)))

AB_add_stage(stage) ==
    /\ Len(pipeline) < MaxStages
    /\ ABAppend("add_stage", stage, stage)

\* AggregateBuilder.exec: list(self.collection.aggregate(self.pipeline))
AB_exec ==
    /\ ab_status = "building"
    /\ LET r == Aggregate(db, ab_collection, pipeline)
       IN  /\ ab_status' = IF r.ok THEN "ok" ELSE "error"
           /\ ab_out' = r.docs
    /\ ab_sent' = pipeline
    /\ UNCHANGED <<pipeline, ab_collection, ab_calls, db, envVars, qbVars, svcVars, concVars>>

\* an AggregateBuilder that is never used
ABIdle ==
    /\ pipeline = <<>>
    /\ ab_collection = "None"
    /\ ab_calls = <<>>
    /\ ab_status = "idle"
    /\ ab_sent = <<>>
    /\ ab_out = <<>>

-----------------------------------------------------------------------------
(* JSON and the Redis client (redis_client.py, base.py) *)

Decimal(n) == [t |-> "decimal", v |-> n]     \* decimal.Decimal (BigQuery NUMERIC)

Digit(n) ==
    CASE n = 0 -> "0" [] n = 1 -> "1" [] n = 2 -> "2" [] n = 3 -> "3"
      [] n = 4 -> "4" [] n = 5 -> "5" [] n = 6 -> "6" [] n = 7 -> "7"
      [] n = 8 -> "8" [] n = 9 -> "9"

\* str(n) of a non-negative int
RECURSIVE IntStr(_)
IntStr(n) == IF n < 10 THEN Digit(n) ELSE IntStr(n \div 10) \o Digit(n % 10)

\* the str whose characters are cs
RECURSIVE Join(_)
Join(cs) == IF cs = <<>> THEN "" ELSE cs[1] \o Join(Tail(cs))

\* a parameter as an f-string prints it: None prints as "None"
Fmt(v) ==
    CASE v.t = "null" -> "None"
      [] v.t = "num"  -> IntStr(v.n)
      [] v.t = "str"  -> Join(v.s)
      [] v.t = "date" -> "T" \o Digit(v.v)

\* the types json.dumps has no encoding for
IsNative(v) == v.t \in {"oid", "date", "decimal"}

RECURSIVE HasNative(_)
HasNative(v) ==
    CASE v.t = "list" -> \E i \in DOMAIN v.items : HasNative(v.items[i])
      [] v.t = "dict" -> \E k \in DOMAIN v.d : HasNative(v.d[k])
      [] OTHER -> IsNative(v)

\* json.dumps: the JSON text of a value, as its syntax tree
RECURSIVE JsonEncode(_)
JsonEncode(v) ==
    CASE v.t = "null" -> [j |-> "null"]
      [] v.t = "num"  -> [j |-> "number", n |-> v.n]
      [] v.t = "str"  -> [j |-> "string", s |-> v.s]
      [] v.t = "list" -> [j |-> "array",
                          items |-> [i \in DOMAIN v.items |-> JsonEncode(v.items[i])]]
      [] v.t = "dict" -> [j |-> "object",
                          members |-> [k \in DOMAIN v.d |-> JsonEncode(v.d[k])]]
      [] OTHER -> [j |-> "null"]

\* json_util.dumps: as json.dumps, with the extended JSON forms of ObjectId
\* and datetime
RECURSIVE BsonEncode(_)
BsonEncode(v) ==
    CASE v.t = "oid"  -> [j |-> "object",
                          members |-> [k \in {"$oid"} |->
                                          [j |-> "string", s |-> <<"o", Digit(v.v)>>]]]
      [] v.t = "date" -> [j |-> "object",
                          members |-> [k \in {"$date"} |->
                                          [j |-> "string", s |-> <<"T", Digit(v.v)>>]]]
      [] v.t = "list" -> [j |-> "array",
                          items |-> [i \in DOMAIN v.items |-> BsonEncode(v.items[i])]]
      [] v.t = "dict" -> [j |-> "object",
                          members |-> [k \in DOMAIN v.d |-> BsonEncode(v.d[k])]]
      [] OTHER -> JsonEncode(v)

\* json.loads
RECURSIVE JsonLoads(_)
JsonLoads(x) ==
    CASE x.j = "null"   -> Null
      [] x.j = "number" -> Num(x.n)
      [] x.j = "string" -> Str(x.s)
      [] x.j = "array"  -> List([i \in DOMAIN x.items |-> JsonLoads(x.items[i])])
      [] x.j = "object" -> Sub([k \in DOMAIN x.members |-> JsonLoads(x.members[k])])

\* json.dumps(data): raises TypeError on a value it cannot encode
JsonDumps(data) == [ok |-> ~HasNative(data), text |-> JsonEncode(data)]

\* BaseService.serialize_mongodb_doc: json.loads(json_util.dumps(doc))
serialize_mongodb_doc(doc) == JsonLoads(BsonEncode(Sub(doc)))

NoEntry == [key |-> "", text |-> [j |-> "none"], ttl |-> 0]

EntryOf(c, key) ==
    IF \E e \in c : e.key = key THEN CHOOSE e \in c : e.key = key ELSE NoEntry

\* SETEX that keeps an existing entry (SETNX-like)
RedisSetex_keep(c, key, ttl, text) ==
    IF \E e \in c : e.key = key THEN c
    ELSE c \cup {[key |-> key, text |-> text, ttl |-> ttl]}

\* redis.setex(key, ttl, text): the whole entry is replaced at once
RedisSetex(c, key, ttl, text) ==
    {e \in c : e.key # key} \cup {[key |-> key, text |-> text, ttl |-> ttl]}

\* json_util.loads: extended JSON forms are revived as native values
RECURSIVE BsonLoads(_)
BsonLoads(x) ==
    CASE x.j = "array"  -> List([i \in DOMAIN x.items |-> BsonLoads(x.items[i])])
      [] x.j = "object" ->
             IF DOMAIN x.members = {"$oid"}
             THEN ObjectId(CHOOSE n \in 0..9 : Digit(n) = x.members["$oid"].s[2])
             ELSE IF DOMAIN x.members = {"$date"}
             THEN Date(CHOOSE n \in 0..9 : Digit(n) = x.members["$date"].s[2])
             ELSE Sub([k \in DOMAIN x.members |-> BsonLoads(x.members[k])])
      [] OTHER -> JsonLoads(x)

\* a get_cached_data that decodes with json_util.loads
RedisGetCached_bson(c, key) ==
    IF \E e \in c : e.key = key THEN BsonLoads(EntryOf(c, key).text) ELSE Null

\* RedisClient.get_cached_data: json.loads(data) if data else None
RedisGetCached(c, key) ==
    IF \E e \in c : e.key = key THEN JsonLoads(EntryOf(c, key).text) ELSE Null

\* RedisClient.set_cached_data: [ok, cache]; ok = FALSE when json.dumps
\* raises or when setex raises because Redis cannot be reached
RedisSetCached(c, key, data) ==
    LET d == JsonDumps(data)
        ok == d.ok /\ "cache_set" \notin outage
    IN  [ok |-> ok,
         cache |-> IF ok THEN RedisSetex(c, key, REDIS_TTL, d.text) ELSE c]

\* a set_cached_data whose guard is inverted
BaseSetCached_inverted(c, key, data) ==
    IF ~Truthy(data) THEN RedisSetCached(c, key, data)
    ELSE [ok |-> TRUE, cache |-> c]

\* a set_cached_data without the `if data:` guard
BaseSetCached_always(c, key, data) == RedisSetCached(c, key, data)

\* BaseService.set_cached_data: nothing is done for a falsy value
BaseSetCached(c, key, data) ==
    IF Truthy(data) THEN RedisSetCached(c, key, data)
    ELSE [ok |-> TRUE, cache |-> c]

\* BaseService.get_cached_data
BaseGetCached(c, key) == RedisGetCached(c, key)

NoEvent ==
    [kind |-> "none", op |-> "", args |-> <<>>, key |-> "", hit |-> FALSE,
     ok |-> TRUE, out |-> Null, store_calls |-> 0]

Event(kind, op, args, key, hit, ok, out, store_calls) ==
    [kind |-> kind, op |-> op, args |-> args, key |-> key, hit |-> hit,
     ok |-> ok, out |-> out, store_calls |-> store_calls]

ShadowSet(sh, key, data) == {x \in sh : x.key # key} \cup {[key |-> key, out |-> data]}

\* a direct call of BaseService.set_cached_data(key, data)
set_cached_data(key, data) ==
    /\ ncalls < MaxCalls
    /\ LET r == BaseSetCached(cache, key, data)
       IN  /\ cache' = r.cache
           /\ shadow' = IF r.ok /\ Truthy(data) THEN ShadowSet(shadow, key, data)
                        ELSE shadow
           /\ last' = Event("set", "set_cached_data", <<data>>, key, FALSE, r.ok, Null, 0)
    /\ prev' = last
    /\ ncalls' = ncalls + 1
    /\ UNCHANGED <<bq, returned, db, envVars, qbVars, abVars, concVars>>

\* a direct call of BaseService.get_cached_data(key)
get_cached_data(key) ==
    /\ ncalls < MaxCalls
    /\ last' = Event("get", "get_cached_data", <<>>, key,
                     \E e \in cache : e.key = key, TRUE, BaseGetCached(cache, key), 0)
    /\ prev' = last
    /\ ncalls' = ncalls + 1
    /\ UNCHANGED <<cache, shadow, bq, returned, db, envVars, qbVars, abVars, concVars>>

\* Redis drops the entry of key once its TTL has elapsed
Expire(key) ==
    /\ ncalls < MaxCalls
    /\ \E e \in cache : e.key = key
    /\ cache' = {e \in cache : e.key # key}
    /\ shadow' = {x \in shadow : x.key # key}
    /\ returned' = {x \in returned : x.key # key}
    /\ last' = Event("expire", "", <<>>, key, FALSE, TRUE, Null, 0)
    /\ prev' = last
    /\ ncalls' = ncalls + 1
    /\ UNCHANGED <<bq, db, envVars, qbVars, abVars, concVars>>

\* an empty cache, no operation yet
SvcStart ==
    /\ cache = {}
    /\ returned = {}
    /\ shadow = {}
    /\ ncalls = 0
    /\ prev = NoEvent
    /\ last = NoEvent

SvcIdle == SvcStart /\ bq = [rows |-> <<>>, numeric |-> FALSE]

-----------------------------------------------------------------------------
(* MongoDBClient.find_many / find_one (mongo_client.py:71-125) *)

\* cursor.sort on a list of (field, direction) keys, first key most significant
RECURSIVE SortMany(_, _)
SortMany(docs, sort) ==
    IF sort = <<>> THEN docs
    ELSE SortBy(SortMany(docs, Tail(sort)), Head(sort).field, Head(sort).dir)

\* find(query).skip(skip), limit only when > 0, sort only when given; the
\* cursor sorts first, then skips, then limits
find_many(dbase, coll, query, limit, skip, sort) ==
    LET found == MatchDocs(dbase[coll], query)
        sorted == IF sort # <<>> THEN SortMany(found, sort) ELSE found
        skipped == SkipDocs(sorted, skip)
    IN  IF limit > 0 THEN LimitDocs(skipped, limit) ELSE skipped

\* find_one: the first matching document, or None
find_one(dbase, coll, query) ==
    LET found == MatchDocs(dbase[coll], query)
    IN  IF found = <<>> THEN Null ELSE Sub(found[1])

Eq(v) == [c |-> "eq", v |-> v]

-----------------------------------------------------------------------------
(* BigQueryClient queries (bigquery.py) over the orders table.  bq.numeric   *)
(* tells whether the revenue column is NUMERIC (read as decimal.Decimal) or  *)
(* FLOAT64 (read as a float).                                                 *)

Amount(n) == IF bq.numeric THEN Decimal(n) ELSE Num(n)

RECURSIVE SumRevenue(_)
SumRevenue(rows) ==
    IF rows = <<>> THEN 0 ELSE Head(rows).revenue + SumRevenue(Tail(rows))

\* the values of a set, ascending
RECURSIVE Ascending(_)
Ascending(S) ==
    IF S = {} THEN <<>>
    ELSE LET m == CHOOSE x \in S : \A y \in S : ~ValLess(y, x)
         IN  <<m>> \o Ascending(S \ {m})

\* get_cities: SELECT DISTINCT city WHERE city IS NOT NULL AND city != ''
\* ORDER BY city
bq_get_cities ==
    LET cities == Ascending({bq.rows[i].city : i \in DOMAIN bq.rows}
                               \ {Null, Str(<<>>)})
    IN  [i \in DOMAIN cities |-> Sub([city |-> cities[i]])]

\* get_city_metrics: one row for a city that has orders, none otherwise
bq_get_city_metrics(city_name) ==
    LET rows == SelectSeq(bq.rows, LAMBDA r : r.city = city_name)
    IN  IF rows = <<>> THEN <<>>
        ELSE <<Sub([city |-> city_name,
                    total_revenue_usd |-> Amount(SumRevenue(rows)),
                    total_retailers |->
                        Num(Cardinality({rows[i].seller_id : i \in DOMAIN rows}))])>>

\* LOWER(s) LIKE LOWER('%p%'): p occurs in s, "_" in p matching any character
LikeContains(s, p) ==
    \E i \in 0..(Len(s) - Len(p)) :
        \A j \in 1..Len(p) : p[j] = "_" \/ Lower(s[i + j]) = Lower(p[j])

\* the rows of one (seller, store) group, in order of first appearance
RetailerGroups(rows) ==
    LET docs == [i \in DOMAIN rows |->
                    [seller_id |-> rows[i].seller_id, store_name |-> rows[i].store_name]]
        keys == GroupKeys(docs, [seller_id |-> "seller_id", store_name |-> "store_name"])
    IN  [k \in DOMAIN keys |->
            Sub([seller_id |-> keys[k].d.seller_id,
                 store_name |-> keys[k].d.store_name,
                 revenue_usd |->
                     Amount(SumRevenue(SelectSeq(rows, LAMBDA r :
                         /\ r.seller_id = keys[k].d.seller_id
                         /\ r.store_name = keys[k].d.store_name)))])]

\* search_retailers: store name LIKE %query%, city filter only for a truthy
\* city, one row per retailer, LIMIT 100
bq_search_retailers(search_query, city) ==
    LET rows == SelectSeq(bq.rows, LAMBDA r :
                    /\ r.store_name.t = "str"
                    /\ LikeContains(r.store_name.s, search_query.s)
                    /\ Truthy(city) => r.city = city)
    IN  LimitDocs(RetailerGroups(rows), 100)

\* get_neighborhood_metrics: one row for a neighborhood of the city that has
\* orders, none otherwise
bq_get_neighborhood_metrics(city_name, neighborhood_name) ==
    LET rows == SelectSeq(bq.rows, LAMBDA r :
                    r.city = city_name /\ r.hood = neighborhood_name)
    IN  IF rows = <<>> THEN <<>>
        ELSE <<Sub([name |-> neighborhood_name,
                    retailer_density |->
                        Num(Cardinality({rows[i].seller_id : i \in DOMAIN rows})),
                    total_revenue_usd |-> Amount(SumRevenue(rows))])>>

-----------------------------------------------------------------------------
(* The cache-aside handlers of the services *)

\* the bookkeeping of one completed service call
Complete(op, args, key, hit, ok, out, calls, newcache, stored) ==
    /\ cache' = newcache
    /\ returned' = IF stored
                   THEN {x \in returned : x.key # key}
                            \cup {[key |-> key, out |-> out, op |-> op, args |-> args]}
                   ELSE returned
    /\ shadow' = IF stored THEN ShadowSet(shadow, key, out) ELSE shadow
    /\ last' = Event("call", op, args, key, hit, ok, IF ok THEN out ELSE Null, calls)
    /\ prev' = last
    /\ ncalls' = ncalls + 1
    /\ UNCHANGED <<bq, db, envVars, qbVars, abVars, concVars>>

\* a handler that serves from the store when the cache cannot be read and
\* returns what it computed when the cache cannot be written
CacheAside_failopen(op, args, key, r) ==
    LET cached == IF "cache_get" \in outage THEN Null ELSE BaseGetCached(cache, key)
    IN  IF Truthy(cached)
        THEN Complete(op, args, key, TRUE, TRUE, cached, 0, cache, FALSE)
        ELSE IF ~r.ok
        THEN Complete(op, args, key, FALSE, FALSE, Null, r.calls, cache, FALSE)
        ELSE LET w == BaseSetCached(cache, key, r.out)
             IN  Complete(op, args, key, FALSE, TRUE, r.out, r.calls, w.cache,
                          r.set /\ w.ok /\ Truthy(r.out))

\* a handler that caches an error marker under the key when its store call
\* fails, before raising
CacheAside_cache_error(op, args, key, r) ==
    LET cached == BaseGetCached(cache, key)
    IN  IF "cache_get" \in outage
        THEN Complete(op, args, key, FALSE, FALSE, Null, 0, cache, FALSE)
        ELSE IF Truthy(cached)
        THEN Complete(op, args, key, TRUE, TRUE, cached, 0, cache, FALSE)
        ELSE IF ~r.ok
        THEN Complete(op, args, key, FALSE, FALSE, Null, r.calls,
                      RedisSetex(cache, key, REDIS_TTL,
                                 JsonEncode(Sub([error |-> Str(<<"e">>)]))),
                      FALSE)
        ELSE IF ~r.set
        THEN Complete(op, args, key, FALSE, TRUE, r.out, r.calls, cache, FALSE)
        ELSE LET w == BaseSetCached(cache, key, r.out)
             IN  Complete(op, args, key, FALSE, w.ok, r.out, r.calls, w.cache,
                          w.ok /\ Truthy(r.out))

\* cached_data = get_cached_data(key); if cached_data: return cached_data;
\* otherwise compute r = [ok, out, calls, set], write it back when the
\* handler does so (r.set), and return it.  redis.get raising (Redis not
\* reachable) ends the handler before any store call: no handler catches it
\* other than to raise again
CacheAside(op, args, key, r) ==
    LET cached == BaseGetCached(cache, key)
    IN  IF "cache_get" \in outage
        THEN Complete(op, args, key, FALSE, FALSE, Null, 0, cache, FALSE)
        ELSE IF Truthy(cached)
        THEN Complete(op, args, key, TRUE, TRUE, cached, 0, cache, FALSE)
        ELSE IF ~r.ok
        THEN Complete(op, args, key, FALSE, FALSE, Null, r.calls, cache, FALSE)
        ELSE IF ~r.set
        THEN Complete(op, args, key, FALSE, TRUE, r.out, r.calls, cache, FALSE)
        ELSE LET w == BaseSetCached(cache, key, r.out)
             IN  Complete(op, args, key, FALSE, w.ok, r.out, r.calls, w.cache,
                          w.ok /\ Truthy(r.out))

Computed(out, calls) == [ok |-> TRUE, out |-> out, calls |-> calls, set |-> TRUE]

\* the handler raised after calls store calls
Failed(calls) == [ok |-> FALSE, out |-> Null, calls |-> calls, set |-> FALSE]

\* a store client that answers a failed call with an empty result
StoreCall_swallow(backend, r) ==
    IF backend \in outage THEN Computed(List(<<>>), 1) ELSE r

\* a store call made while its backend fails: find_one / find_many /
\* execute_query log the exception and raise it again, AggregateBuilder.exec
\* does not catch it, and the handler raises at its first store call
StoreCall(backend, r) ==
    IF backend \in outage THEN Failed(1) ELSE r

\* a list result whose total is the length of the page that was read
ListResult_page_total(coll, query, skip, limit, sort) ==
    LET page == find_many(db, coll, query, limit, skip, sort)
        serialized == [i \in DOMAIN page |-> serialize_mongodb_doc(page[i])]
    IN  Sub([data |-> List(serialized),
             total |-> Num(Len(page)),
             page |-> Num(IF limit > 0 THEN (skip \div limit) + 1 ELSE 1),
             page_size |-> Num(limit)])

\* the list result of get_brands / get_states / get_lgas
ListResult(coll, query, skip, limit, sort) ==
    LET total == Len(find_many(db, coll, query, 0, 0, <<>>))
        page == find_many(db, coll, query, limit, skip, sort)
        serialized == [i \in DOMAIN page |-> serialize_mongodb_doc(page[i])]
    IN  Sub([data |-> List(serialized),
             total |-> Num(total),
             page |-> Num(IF limit > 0 THEN (skip \div limit) + 1 ELSE 1),
             page_size |-> Num(limit)])

ListKey(prefix, skip, limit, filter) ==
    prefix \o IntStr(skip) \o "_" \o IntStr(limit) \o "_" \o Fmt(filter)

Asc(field) == [field |-> field, dir |-> 1]

get_brands(skip, limit, brand_name) ==
    /\ ncalls < MaxCalls
    /\ CacheAside("get_brands", <<Num(skip), Num(limit), brand_name>>,
                  ListKey("brands_list_", skip, limit, brand_name),
                  StoreCall("mongo", Computed(ListResult("brands",
                              IF Truthy(brand_name)
                              THEN [brand_name |-> Eq(brand_name)]
                              ELSE [brand_name |-> [c |-> "nin", vs |-> {Null, Str(<<"-">>)}]],
                              skip, limit, <<Asc("brand_name")>>), 2)))

get_states(skip, limit, state_code) ==
    /\ ncalls < MaxCalls
    /\ CacheAside("get_states", <<Num(skip), Num(limit), state_code>>,
                  ListKey("states_list_", skip, limit, state_code),
                  StoreCall("mongo", Computed(ListResult("state_boundaries",
                              IF Truthy(state_code)
                              THEN [state_code |-> Eq(state_code)] ELSE <<>>,
                              skip, limit, <<Asc("state_name")>>), 2)))

\* LGAService.get_lgas (lga_service.py:25-64)
get_lgas(skip, limit, state_code) ==
    /\ ncalls < MaxCalls
    /\ CacheAside("get_lgas", <<Num(skip), Num(limit), state_code>>,
                  ListKey("lgas_list_", skip, limit, state_code),
                  StoreCall("mongo", Computed(ListResult("lga_boundaries",
                              IF Truthy(state_code)
                              THEN [state_code |-> Eq(state_code)] ELSE <<>>,
                              skip, limit,
                              <<Asc("state_name"), Asc("lga_name")>>), 2)))

\* find_one; a found brand is serialized, cached and returned; None is
\* returned without being cached
get_brand_by_name(brand_name) ==
    /\ ncalls < MaxCalls
    /\ LET brand == find_one(db, "brands", [brand_name |-> Eq(brand_name)])
       IN  CacheAside("get_brand_by_name", <<brand_name>>,
                      "brand_" \o Fmt(brand_name),
                      StoreCall("mongo",
                          IF Truthy(brand)
                          THEN Computed(serialize_mongodb_doc(brand.d), 1)
                          ELSE [ok |-> TRUE, out |-> Null, calls |-> 1,
                                set |-> FALSE]))

get_cities ==
    /\ ncalls < MaxCalls
    /\ CacheAside("get_cities", <<>>, "cities_list",
                  StoreCall("bigquery", Computed(List(bq_get_cities), 1)))

get_city_metrics(city_name) ==
    /\ ncalls < MaxCalls
    /\ CacheAside("get_city_metrics", <<city_name>>,
                  "city_metrics_" \o Fmt(city_name),
                  StoreCall("bigquery",
                      Computed(List(bq_get_city_metrics(city_name)), 1)))

search_retailers(query, city) ==
    /\ ncalls < MaxCalls
    /\ CacheAside("search_retailers", <<query, city>>,
                  "retailer_search_" \o Fmt(city) \o "_" \o Fmt(query),
                  StoreCall("bigquery",
                      Computed(List(bq_search_retailers(query, city)), 1)))

get_neighborhood_metrics(city_name, neighborhood_name) ==
    /\ ncalls < MaxCalls
    /\ CacheAside("get_neighborhood_metrics", <<city_name, neighborhood_name>>,
                  "neighborhood_metrics_" \o Fmt(city_name) \o "_"
                      \o Fmt(neighborhood_name),
                  StoreCall("bigquery",
                      Computed(List(bq_get_neighborhood_metrics(city_name,
                                                        neighborhood_name)), 1)))

-----------------------------------------------------------------------------
(* The services whose pipeline ends in a data/total $facet                   *)
(* (category_service.py, sales_service.py).  The $avg accumulators of the    *)
(* sales pipelines are left out: only the grouping, the joins and the count  *)
(* decide which documents reach the facet.                                    *)

\* a facet whose count is taken after the page window
FacetStage_paged(data, name) ==
    Stage("$facet", [data |-> data,
                     total |-> data \o <<Stage("$count", [name |-> name])>>])

\* the facet: the data branch is built from data, the total branch is $count
FacetStage(data, name) ==
    Stage("$facet", [data |-> data, total |-> <<Stage("$count", [name |-> name])>>])

Lookup(from, localField, as) ==
    Stage("$lookup", [from |-> from, localField |-> localField,
                      foreignField |-> "_id", as |-> as])

\* get_categories: the stages in front of the facet
CategoriesUpstream(product_category) ==
    <<Stage("$match",
            IF Truthy(product_category)
            THEN [product_category |-> [c |-> "regex", p |-> product_category.s]]
            ELSE [product_category |-> [c |-> "nin", vs |-> {Null, Str(<<"-">>)}]])>>

CategoriesPipeline(skip, limit, product_category) ==
    CategoriesUpstream(product_category)
        \o <<FacetStage(<<Stage("$sort", Asc("product_category")),
                          Stage("$skip", Num(skip)),
                          Stage("$limit", Num(limit))>>, "count")>>

\* str(ObjectId) and ObjectId(str)
OidStr(i) == Str(<<"o", Digit(i)>>)
ParseOid(x) == ObjectId(CHOOSE n \in 0..9 : Digit(n) = x.s[2])

\* the periods inside the date range, as the strings of their ids
PeriodQuery(start_date, end_date) ==
    [f \in (IF Truthy(start_date) THEN {"start_date"} ELSE {})
             \cup (IF Truthy(end_date) THEN {"end_date"} ELSE {}) |->
        IF f = "start_date" THEN [c |-> "gte", v |-> start_date]
        ELSE [c |-> "lte", v |-> end_date]]

HasPeriodQuery(start_date, end_date) == Truthy(start_date) \/ Truthy(end_date)

PeriodIds(start_date, end_date) ==
    IF HasPeriodQuery(start_date, end_date)
    THEN LET periods == find_many(db, "periods",
                                  PeriodQuery(start_date, end_date), 0, 0, <<>>)
         IN  [i \in DOMAIN periods |-> OidStr(periods[i]["_id"].v)]
    ELSE <<>>

\* metrics_query; with_missing_date: filter on documents without a date when
\* no period matched (get_sales_metrics only)
MetricsQuery(period_ids, lga_id, state_id, brand_id, with_missing_date) ==
    [f \in (IF period_ids # <<>> \/ with_missing_date THEN {"date"} ELSE {})
             \cup (IF Truthy(lga_id) THEN {"lga"} ELSE {})
             \cup (IF Truthy(state_id) THEN {"state"} ELSE {})
             \cup (IF Truthy(brand_id) THEN {"brand"} ELSE {}) |->
        CASE f = "date"  -> IF period_ids # <<>>
                            THEN [c |-> "in",
                                  vs |-> {ParseOid(period_ids[i]) : i \in DOMAIN period_ids}]
                            ELSE [c |-> "exists", b |-> FALSE]
          [] f = "lga"   -> Eq(ParseOid(lga_id))
          [] f = "state" -> Eq(ParseOid(state_id))
          [] f = "brand" -> Eq(ParseOid(brand_id))]

BrandStages(brand_id) ==
    IF Truthy(brand_id)
    THEN <<Lookup("brands", "_id.brand", "brand"), Stage("$unwind", [path |-> "brand"])>>
    ELSE <<>>

\* get_sales_metrics: pipeline_base
SalesUpstream(period_ids, lga_id, state_id, brand_id) ==
    <<Stage("$match", MetricsQuery(period_ids, lga_id, state_id, brand_id, TRUE)),
      Stage("$group",
            [by |-> IF Truthy(brand_id) THEN [lga |-> "lga", brand |-> "brand"]
                    ELSE [lga |-> "lga"]]),
      Lookup("lga_boundaries", "_id.lga", "lga"),
      Stage("$unwind", [path |-> "lga"])>>
    \o BrandStages(brand_id)
    \o <<Stage("$project",
               [keep |-> {"lga", "count"}
                           \cup (IF Truthy(brand_id) THEN {"brand"} ELSE {})])>>

\* get_sales_metricsv2: the stages in front of the facet
SalesV2Upstream(period_ids, lga_id, state_id, brand_id, product_category) ==
    <<Stage("$match", MetricsQuery(period_ids, lga_id, state_id, brand_id, FALSE)),
      Stage("$unwind", [path |-> "items"])>>
    \o (IF Truthy(product_category)
        THEN <<Stage("$match",
                     [f \in {"items.product_category"} |->
                         Eq(ParseOid(product_category))])>>
        ELSE <<>>)
    \o <<Stage("$group",
               [by |-> IF Truthy(brand_id)
                       THEN [lga |-> "lga",
                             product_category |-> "items.product_category",
                             brand |-> "brand"]
                       ELSE [lga |-> "lga",
                             product_category |-> "items.product_category"]]),
         Lookup("lga_boundaries", "_id.lga", "lga"),
         Stage("$unwind", [path |-> "lga"]),
         Lookup("product_categories", "_id.product_category", "product_category"),
         Stage("$unwind", [path |-> "product_category"])>>
    \o BrandStages(brand_id)
    \o <<Stage("$project",
               [keep |-> {"lga", "product_category", "count"}
                           \cup (IF Truthy(brand_id) THEN {"brand"} ELSE {})])>>

PageStages(skip, limit) == <<Stage("$skip", Num(skip)), Stage("$limit", Num(limit))>>

\* dict.get(k, default) on a dict value
DictGet(v, k, default) == IF k \in DOMAIN v.d THEN v.d[k] ELSE default

PyStr(v) ==
    CASE v.t = "oid" -> OidStr(v.v)
      [] v.t = "null" -> Str(<<"N", "o", "n", "e">>)
      [] OTHER -> v

\* SalesService.transform_aggregated_to_geojson
transform_aggregated_to_geojson(agg_doc) ==
    LET lga == IF "lga" \in DOMAIN agg_doc THEN agg_doc["lga"] ELSE Sub(<<>>)
        prod_cat == IF "product_category" \in DOMAIN agg_doc
                    THEN agg_doc["product_category"] ELSE Sub(<<>>)
        brand == FieldOf(agg_doc, "brand")
        with_brand == /\ brand.t = "dict"
                      /\ Truthy(brand)
                      /\ Truthy(DictGet(brand, "brand_name", Null))
        properties ==
            [k \in {"name", "product_category", "count"}
                     \cup (IF with_brand THEN {"brand_name"} ELSE {}) |->
                CASE k = "name" -> DictGet(lga, "lga_name", Str(<<>>))
                  [] k = "product_category" ->
                         DictGet(prod_cat, "product_category", Str(<<>>))
                  [] k = "count" -> FieldOf(agg_doc, "count")
                  [] k = "brand_name" -> DictGet(brand, "brand_name", Null)]
    IN  serialize_mongodb_doc(
            [type |-> Str(<<"F", "e", "a", "t", "u", "r", "e">>),
             id |-> PyStr(DictGet(lga, "_id", Null)),
             properties |-> Sub(properties),
             geometry |-> DictGet(lga, "geometry", Null)])

\* the total and the data list read out of the facet's one result document
FacetTotal(agg_result, name) ==
    IF agg_result # <<>> /\ Truthy(FieldOf(agg_result[1], "total"))
    THEN DictGet(agg_result[1]["total"].items[1], name, Num(0))
    ELSE Num(0)

FacetData(agg_result) ==
    IF agg_result # <<>> /\ "data" \in DOMAIN agg_result[1]
    THEN agg_result[1]["data"].items ELSE <<>>

\* a result whose pages are counted from zero
PageResult_from_zero(data, total, skip, limit) ==
    Sub([data |-> List(data),
         total |-> total,
         page |-> Num(IF limit > 0 THEN skip \div limit ELSE 1),
         page_size |-> Num(limit)])

PageResult(data, total, skip, limit) ==
    Sub([data |-> List(data),
         total |-> total,
         page |-> Num(IF limit > 0 THEN (skip \div limit) + 1 ELSE 1),
         page_size |-> Num(limit)])

get_categories(skip, limit, product_category) ==
    /\ ncalls < MaxCalls
    /\ LET agg == Aggregate(db, "product_categories",
                            CategoriesPipeline(skip, limit, product_category))
           categories == FacetData(agg.docs)
       IN  CacheAside("get_categories", <<Num(skip), Num(limit), product_category>>,
               ListKey("categories_list_", skip, limit, product_category),
               StoreCall("mongo",
                   IF ~agg.ok THEN Failed(1)
                   ELSE Computed(PageResult(
                            [i \in DOMAIN categories |->
                                serialize_mongodb_doc(categories[i].d)],
                            FacetTotal(agg.docs, "count"), skip, limit), 1)))

SalesKey(prefix, skip, limit, start_date, end_date, lga_id, state_id, brand_id) ==
    prefix \o IntStr(skip) \o "_" \o IntStr(limit) \o "_" \o Fmt(start_date)
        \o "_" \o Fmt(end_date) \o "_" \o Fmt(lga_id) \o "_" \o Fmt(state_id)
        \o "_" \o Fmt(brand_id)

SalesCalls(start_date, end_date) ==
    IF HasPeriodQuery(start_date, end_date) THEN 2 ELSE 1

get_sales_metrics(skip, limit, start_date, end_date, lga_id, state_id, brand_id) ==
    /\ ncalls < MaxCalls
    /\ LET period_ids == PeriodIds(start_date, end_date)
           agg == Aggregate(db, "brand_boundaries_unit",
                      SalesUpstream(period_ids, lga_id, state_id, brand_id)
                          \o <<FacetStage(PageStages(skip, limit), "total")>>)
           aggregated_results == FacetData(agg.docs)
       IN  CacheAside("get_sales_metrics",
               <<Num(skip), Num(limit), start_date, end_date, lga_id, state_id, brand_id>>,
               SalesKey("sales_metrics_", skip, limit, start_date, end_date,
                        lga_id, state_id, brand_id),
               StoreCall("mongo",
                   IF ~agg.ok THEN Failed(SalesCalls(start_date, end_date))
                   ELSE Computed(PageResult(
                            [i \in DOMAIN aggregated_results |->
                                transform_aggregated_to_geojson(aggregated_results[i].d)],
                            FacetTotal(agg.docs, "total"), skip, limit),
                            SalesCalls(start_date, end_date))))

get_sales_metricsv2(skip, limit, start_date, end_date, lga_id, state_id, brand_id, product_category) ==
    /\ ncalls < MaxCalls
    /\ LET period_ids == PeriodIds(start_date, end_date)
           agg == Aggregate(db, "brand_category_boundaries_unit",
                      SalesV2Upstream(period_ids, lga_id, state_id, brand_id,
                                      product_category)
                          \o <<FacetStage(PageStages(skip, limit), "total")>>)
           aggregated_results == FacetData(agg.docs)
       IN  CacheAside("get_sales_metricsv2",
               <<Num(skip), Num(limit), start_date, end_date, lga_id, state_id,
                 brand_id, product_category>>,
               SalesKey("sales_metrics_v2_", skip, limit, start_date, end_date,
                        lga_id, state_id, brand_id) \o "_" \o Fmt(product_category),
               StoreCall("mongo",
                   IF ~agg.ok THEN Failed(SalesCalls(start_date, end_date))
                   ELSE Computed(PageResult(
                            [i \in DOMAIN aggregated_results |->
                                transform_aggregated_to_geojson(aggregated_results[i].d)],
                            FacetTotal(agg.docs, "total"), skip, limit),
                            SalesCalls(start_date, end_date))))

-----------------------------------------------------------------------------
(* The routes of the paginated lists (api/brands.py, states.py, lgas.py,    *)
(* categories.py, sales.py): page and page_size are validated by            *)
(* Query(ge=1) and Query(ge=1, le=1000), then skip = (page - 1) * page_size *)

\* page_size: Query(10, ge=1, le=1000)
PageSizeMax == 1000

\* the request passes the validation of the query parameters
ValidPage(page, page_size) ==
    page >= 1 /\ page_size >= 1 /\ page_size <= PageSizeMax

\* a route that takes page * page_size for the offset
RouteSkip_from_page(page, page_size) == page * page_size

\* skip = (page - 1) * page_size
RouteSkip(page, page_size) == (page - 1) * page_size

route_get_brands(page, page_size, brand_name) ==
    /\ ValidPage(page, page_size)
    /\ get_brands(RouteSkip(page, page_size), page_size, brand_name)

route_get_states(page, page_size, state_code) ==
    /\ ValidPage(page, page_size)
    /\ get_states(RouteSkip(page, page_size), page_size, state_code)

route_get_lgas(page, page_size, state_code) ==
    /\ ValidPage(page, page_size)
    /\ get_lgas(RouteSkip(page, page_size), page_size, state_code)

route_get_categories(page, page_size, product_category) ==
    /\ ValidPage(page, page_size)
    /\ get_categories(RouteSkip(page, page_size), page_size, product_category)

\* GET /sales calls get_sales_metricsv2
route_get_sales_metrics(page, page_size, start_date, end_date, lga_id, brand_id, state_id, product_category) ==
    /\ ValidPage(page, page_size)
    /\ get_sales_metricsv2(RouteSkip(page, page_size), page_size, start_date,
                           end_date, lga_id, state_id, brand_id, product_category)

-----------------------------------------------------------------------------
(* Concurrent requests of LGAService.get_lgas (lga_service.py:25-64), one    *)
(* step per cache or store call; requests run in separate workers and the    *)
(* collection may receive documents meanwhile.                                *)

Reqs == 1..MaxReqs

\* the parameters all the concurrent requests carry
ConcSkip == 0
ConcLimit == 1
ConcKey == ListKey("lgas_list_", ConcSkip, ConcLimit, Null)

NewReq == [pc |-> "start", hit |-> FALSE, total |-> 0, result |-> Null, out |-> Null]

\* cached_data = get_cached_data(cache_key); if cached_data: return it
get_lgas_get_cached(r) ==
    /\ reqs[r].pc = "start"
    /\ LET cached_data == BaseGetCached(cache, ConcKey)
       IN  reqs' = [reqs EXCEPT ![r] =
                       IF Truthy(cached_data)
                       THEN [@ EXCEPT !.pc = "done", !.hit = TRUE, !.out = cached_data]
                       ELSE [@ EXCEPT !.pc = "count"]]
    /\ UNCHANGED <<written, db, envVars, qbVars, abVars, svcVars>>

\* total = len(find_many("lga_boundaries", query))
get_lgas_count(r) ==
    /\ reqs[r].pc = "count"
    /\ reqs' = [reqs EXCEPT ![r] =
                   [@ EXCEPT !.pc = "page",
                             !.total = Len(find_many(db, "lga_boundaries", <<>>, 0, 0, <<>>))]]
    /\ UNCHANGED <<written, db, envVars, qbVars, abVars, svcVars>>

\* the page is read and serialized, and the result dict is built
get_lgas_page(r) ==
    /\ reqs[r].pc = "page"
    /\ LET lgas == find_many(db, "lga_boundaries", <<>>, ConcLimit, ConcSkip,
                             <<Asc("state_name"), Asc("lga_name")>>)
       IN  reqs' = [reqs EXCEPT ![r] =
                       [@ EXCEPT !.pc = "set",
                                 !.result = PageResult(
                                     [i \in DOMAIN lgas |-> serialize_mongodb_doc(lgas[i])],
                                     Num(reqs[r].total), ConcSkip, ConcLimit)]]
    /\ UNCHANGED <<written, db, envVars, qbVars, abVars, svcVars>>

\* a write that keeps the total of the entry it finds
get_lgas_set_cached_merge(r) ==
    /\ reqs[r].pc = "set"
    /\ LET old == BaseGetCached(cache, ConcKey)
           merged == IF Truthy(old)
                     THEN Sub([reqs[r].result.d EXCEPT !["total"] = old.d["total"]])
                     ELSE reqs[r].result
       IN  cache' = BaseSetCached(cache, ConcKey, merged).cache
    /\ written' = Append(written, reqs[r].result)
    /\ reqs' = [reqs EXCEPT ![r] = [@ EXCEPT !.pc = "done", !.out = reqs[r].result]]
    /\ UNCHANGED <<bq, returned, shadow, ncalls, prev, last, db, envVars, qbVars, abVars>>

\* set_cached_data(cache_key, result); return result
get_lgas_set_cached(r) ==
    /\ reqs[r].pc = "set"
    /\ cache' = BaseSetCached(cache, ConcKey, reqs[r].result).cache
    /\ written' = Append(written, reqs[r].result)
    /\ reqs' = [reqs EXCEPT ![r] = [@ EXCEPT !.pc = "done", !.out = reqs[r].result]]
    /\ UNCHANGED <<bq, returned, shadow, ncalls, prev, last, db, envVars, qbVars, abVars>>

\* an insert that drops the cached list of the collection it writes to
insert_one_invalidate(collection_name, document) ==
    /\ Len(db[collection_name]) < MaxRows
    /\ db' = [db EXCEPT ![collection_name] = Append(@, document)]
    /\ cache' = {e \in cache : e.key # ConcKey}
    /\ UNCHANGED <<bq, returned, shadow, ncalls, prev, last>>
    /\ UNCHANGED <<qbVars, abVars, concVars, envVars>>

\* MongoDBClient.insert_one(collection_name, document)
insert_one(collection_name, document) ==
    /\ Len(db[collection_name]) < MaxRows
    /\ db' = [db EXCEPT ![collection_name] = Append(@, document)]
    /\ UNCHANGED <<qbVars, abVars, svcVars, concVars, envVars>>

\* no concurrent request
ConcIdle == reqs = <<>> /\ written = <<>>

\* no query and no handler under observation
NoQuery == [status |-> "idle"]

EnvQuiet == eq = NoQuery /\ tq = NoQuery /\ loop = <<>>

\* every backend reachable
EnvIdle == outage = {} /\ EnvQuiet

\* the calls that can fail: redis.get, redis.setex, a pymongo call, a
\* BigQuery query
FaultPoints == {"cache_get", "cache_set", "mongo", "bigquery"}

\* between two operations backends become unreachable or reachable again
Outage(s) ==
    /\ last.kind # "outage"
    /\ s # outage
    /\ outage' = s
    /\ last' = Event("outage", "", <<>>, "", FALSE, TRUE, Null, 0)
    /\ prev' = last
    /\ UNCHANGED <<cache, bq, returned, shadow, ncalls, db, qbVars, abVars, concVars>>
    /\ UNCHANGED <<eq, tq, loop>>

-----------------------------------------------------------------------------
(* BigQueryClient.execute_query under its Retry decorator                    *)
(* (bigquery.py:27-64), one run of the body per attempt.                     *)

RetryInitial == 1        \* initial=1.0
RetryMaximum == 60       \* maximum=60.0
RetryMultiplier == 2     \* multiplier=2.0
RetryDeadline == 600     \* deadline=600.0

\* what one run of the body of execute_query ends in: the rows, or the
\* exception that client.query or the iteration over the job raised
Outcomes == {"rows", "ServerError", "BadGateway", "BadRequest", "Forbidden"}

\* predicate=retry.if_exception_type(ServerError, BadRequest, BadGateway)
RetryPredicate(exc) == exc \in {"ServerError", "BadRequest", "BadGateway"}

\* the delay slept after the k-th failed attempt, jitter left out
RECURSIVE RetryDelay(_)
RetryDelay(k) ==
    IF k <= 1 THEN RetryInitial
    ELSE LET d == RetryDelay(k - 1) * RetryMultiplier
         IN  IF d > RetryMaximum THEN RetryMaximum ELSE d

\* the outcome of attempt k: the backend stays as the script leaves it
OutcomeAt(script, k) == script[IF k > Len(script) THEN Len(script) ELSE k]

\* retry_target around a function that runs its body when it is called
RECURSIVE RetryLoop(_, _, _)
RetryLoop(script, k, slept) ==
    LET o == OutcomeAt(script, k) IN
    IF o = "rows"
    THEN [status |-> "ok", tries |-> k, err |-> "", slept |-> slept]
    ELSE IF ~RetryPredicate(o) \/ slept + RetryDelay(k) > RetryDeadline
    THEN [status |-> "error", tries |-> k, err |-> o, slept |-> slept]
    ELSE RetryLoop(script, k + 1, slept + RetryDelay(k))

\* the decorator applied to a function that is not a coroutine function
RetryWrapped_sync(script) == RetryLoop(script, 1, 0)

\* the decorator applied to `async def execute_query`: the call made inside
\* the retry loop only creates the coroutine and cannot raise, so the loop
\* returns it after one call; the body runs once, when the caller awaits
\* it, and its exception (logged and raised again, lines 62-64) reaches the
\* caller
RetryWrapped(script) ==
    [status |-> IF script[1] = "rows" THEN "ok" ELSE "error",
     tries |-> 1,
     err |-> IF script[1] = "rows" THEN "" ELSE script[1],
     slept |-> 0]

\* await bigquery_client.execute_query(query, params)
execute_query ==
    /\ eq.status = "pending"
    /\ LET r == RetryWrapped(eq.script)
       IN  eq' = [script |-> eq.script, status |-> r.status, tries |-> r.tries,
                  err |-> r.err, slept |-> r.slept]
    /\ UNCHANGED <<outage, tq, loop, db, qbVars, abVars, svcVars, concVars>>

-----------------------------------------------------------------------------
(* The event loop of one worker (uvicorn): the handlers are coroutines run   *)
(* by one thread; a call made inline keeps that thread until it returns, a   *)
(* call handed to asyncio.to_thread leaves it free.                          *)

\* the store and cache calls a handler makes on a miss, in order
HandlerCalls(h) ==
    CASE h = "get_brands" -> <<"redis_get", "find_many", "find_many", "redis_set">>
      [] h = "get_brand_by_name" -> <<"redis_get", "find_one", "redis_set">>
      [] h = "get_categories" -> <<"redis_get", "aggregate_exec", "redis_set">>
      [] h = "get_cities" -> <<"redis_get", "execute_query", "redis_set">>
      [] h = "query_exec" -> <<"qb_find", "qb_fetch">>

Handlers == {"get_brands", "get_brand_by_name", "get_categories", "get_cities",
             "query_exec"}

\* the calls wrapped in asyncio.to_thread: AggregateBuilder.exec (line 251)
\* and the two finds of QueryBuilder.exec (lines 309, 331); find_one,
\* find_many, execute_query and the Redis calls run the driver inline
Dispatched(call) == call \in {"aggregate_exec", "qb_find", "qb_fetch"}

\* the loop's thread is inside a blocking call
LoopBlocked == \E r \in DOMAIN loop : loop[r].state = "blocking"

\* the handler of request r is scheduled and reaches its next call
loop_begin_call(r) ==
    /\ r \in DOMAIN loop
    /\ loop[r].state = "ready"
    /\ ~LoopBlocked
    /\ loop' = [loop EXCEPT ![r].state =
                    IF Dispatched(HandlerCalls(loop[r].handler)[loop[r].pc])
                    THEN "offloaded" ELSE "blocking"]
    /\ UNCHANGED <<outage, eq, tq, db, qbVars, abVars, svcVars, concVars>>

\* the call of request r returns; after a call run in a thread the handler
\* goes on once the loop's thread is free
loop_end_call(r) ==
    /\ r \in DOMAIN loop
    /\ \/ loop[r].state = "blocking"
       \/ loop[r].state = "offloaded" /\ ~LoopBlocked
    /\ loop' = [loop EXCEPT
                    ![r].pc = @ + 1,
                    ![r].state = IF loop[r].pc = Len(HandlerCalls(loop[r].handler))
                                 THEN "done" ELSE "ready"]
    /\ UNCHANGED <<outage, eq, tq, db, qbVars, abVars, svcVars, concVars>>

-----------------------------------------------------------------------------
(* One store query, second by second.  execute_query passes its timeout to  *)
(* client.query, the request that submits the job, and then iterates over   *)
(* the job without a timeout; MongoClient is created without any timeout    *)
(* option and the find / aggregate calls and asyncio.to_thread are given     *)
(* none.                                                                      *)

\* execute_query(..., timeout: int = 30)
QueryTimeout == 30

QueryKinds == {"find_many", "aggregate_exec", "execute_query"}

\* the phases of a query: the job submission of BigQuery, then the wait for
\* the documents or rows
FirstPhase(kind) == IF kind = "execute_query" THEN "submit" ELSE "rows"

\* the part of a query that is given a timeout
HasTimeout(kind, phase) == kind = "execute_query" /\ phase = "submit"

\* one more second passes while the caller waits for the query
query_wait ==
    /\ tq.status = "running"
    /\ tq.in_phase < tq.takes[tq.phase]
    /\ HasTimeout(tq.kind, tq.phase) => tq.in_phase < QueryTimeout
    /\ tq' = [tq EXCEPT !.in_phase = @ + 1, !.waited = @ + 1]
    /\ UNCHANGED <<outage, eq, loop, db, qbVars, abVars, svcVars, concVars>>

\* the backend answers: the job is submitted, or the result is complete
query_return ==
    /\ tq.status = "running"
    /\ tq.in_phase = tq.takes[tq.phase]
    /\ tq' = IF tq.phase = "submit"
             THEN [tq EXCEPT !.phase = "rows", !.in_phase = 0]
             ELSE [tq EXCEPT !.status = "ok"]
    /\ UNCHANGED <<outage, eq, loop, db, qbVars, abVars, svcVars, concVars>>

\* the timeout of the request elapses before the backend answers
query_timeout ==
    /\ tq.status = "running"
    /\ HasTimeout(tq.kind, tq.phase)
    /\ tq.in_phase = QueryTimeout
    /\ tq.in_phase < tq.takes[tq.phase]
    /\ tq' = [tq EXCEPT !.status = "error"]
    /\ UNCHANGED <<outage, eq, loop, db, qbVars, abVars, svcVars, concVars>>

-----------------------------------------------------------------------------
(* The collections of the database *)

\* product_category / brand_name values: null, the "-" placeholder, names
NameValues == {Null, Str(<<"-">>), Str(<<"A">>), Str(<<"a", "b">>)}

\* documents with an _id and one name field
NamedDoc(k, field, name) ==
    [f \in {"_id", field} |-> IF f = "_id" THEN ObjectId(k) ELSE name]

NamedDocs(field) ==
    {[k \in 1..Len(ns) |-> NamedDoc(k, field, ns[k])] :
        ns \in SeqsUpTo(NameValues, MaxRows)}

EmptyDb ==
    [c \in {"product_categories", "brands", "state_boundaries",
            "lga_boundaries", "periods", "brand_boundaries_unit",
            "brand_category_boundaries_unit"} |-> <<>>]

BrandDocs(ns) == [k \in 1..Len(ns) |-> NamedDoc(k, "brand_name", ns[k])]

StateDocs(ns) ==
    [k \in 1..Len(ns) |->
        [_id |-> ObjectId(k), state_code |-> ns[k], state_name |-> ns[k]]]

LgaDocs(ns) ==
    [k \in 1..Len(ns) |->
        [_id |-> ObjectId(k), lga_name |-> ns[k], state_code |-> ns[k],
         state_name |-> ns[k]]]

\* a database whose brands, states and LGAs carry the names ns
MongoDb(ns) ==
    [EmptyDb EXCEPT !["brands"] = BrandDocs(ns),
                    !["state_boundaries"] = StateDocs(ns),
                    !["lga_boundaries"] = LgaDocs(ns)]

\* one row of the orders table
Order(city, hood, seller, store_name, revenue) ==
    [city |-> Str(city), hood |-> Str(hood), seller_id |-> Num(seller),
     store_name |-> Str(store_name), revenue |-> revenue]

-----------------------------------------------------------------------------
(* Specifications *)

\* Spec: one QueryBuilder over a collection, populate() calls, then exec()
Init == QBInit /\ db = EmptyDb /\ ABIdle /\ SvcIdle /\ ConcIdle /\ EnvIdle

Next ==
    \/ \E r \in PopulateCalls : QB_populate(r[1], r[2])
    \/ QB_exec

Spec == Init /\ [][Next]_vars

\* the arguments callers pass to the AggregateBuilder methods
MatchArgs == {[product_category |-> [c |-> "nin", vs |-> {Null, Str(<<"-">>)}]]}
GroupArgs == {[by |-> [product_category |-> "product_category"]]}
SortArgs == {[field |-> "product_category", dir |-> 1]}
ProjectArgs == {[keep |-> {"product_category"}]}
CustomStages == {Stage("$count", [name |-> "count"])}

\* the category names of the collections the builder runs on
AggSamples ==
    {<<Str(<<"a", "b">>), Str(<<"-">>), Str(<<"A">>)>>,
     <<Str(<<"A">>), Null, Str(<<"A">>)>>}

\* SpecAgg: one AggregateBuilder, any builder calls in any order, then exec()
InitAgg ==
    /\ QBIdle
    /\ db \in {[EmptyDb EXCEPT !["product_categories"] =
                     [k \in 1..Len(ns) |-> NamedDoc(k, "product_category", ns[k])]] :
                  ns \in AggSamples}
    /\ pipeline = <<>>
    /\ ab_collection = "product_categories"
    /\ ab_calls = <<>>
    /\ ab_status = "building"
    /\ ab_sent = <<>>
    /\ ab_out = <<>>
    /\ SvcIdle
    /\ ConcIdle
    /\ EnvIdle

NextAgg ==
    \/ \E c \in MatchArgs : AB_match(c)
    \/ \E g \in GroupArgs : AB_group(g)
    \/ \E x \in SortArgs : AB_sort(x)
    \/ \E x \in ProjectArgs : AB_project(x)
    \/ AB_skip(1)
    \/ AB_limit(1)
    \/ \E st \in CustomStages : AB_add_stage(st)
    \/ AB_exec

SpecAgg == InitAgg /\ [][NextAgg]_vars

\* the keys and values handed to the cache layer
CacheKeys == {"k1", "k2"}

CacheValues ==
    {Null, List(<<>>), Sub(<<>>), Num(0), Str(<<>>),
     Num(7), Str(<<"a">>), List(<<Num(1)>>),
     Sub([total |-> Num(0), data |-> List(<<>>)]),
     Sub([_id |-> ObjectId(1)])}

\* SpecCache: the cache layer called directly, and entries expiring
InitCache == QBIdle /\ db = EmptyDb /\ ABIdle /\ SvcIdle /\ ConcIdle /\ EnvIdle

NextCache ==
    \/ \E k \in CacheKeys, v \in CacheValues : set_cached_data(k, v)
    \/ \E k \in CacheKeys : get_cached_data(k)
    \/ \E k \in CacheKeys : Expire(k)

SpecCache == InitCache /\ [][NextCache]_vars

\* the names and orders of the databases the services run on
SvcNames == {Str(<<"A">>), Str(<<"b">>)}

SvcOrders ==
    <<Order(<<"A">>, <<"a">>, 1, <<"a">>, 1),
      Order(<<"A">>, <<"b">>, 2, <<"b">>, 2),
      Order(<<"b">>, <<"a">>, 3, <<"A", "b">>, 3)>>

\* the rows of SvcOrders at the positions S, in table order
RECURSIVE OrdersAt(_)
OrdersAt(S) ==
    IF S = {} THEN <<>>
    ELSE LET i == CHOOSE x \in S : \A y \in S : x <= y
         IN  <<SvcOrders[i]>> \o OrdersAt(S \ {i})

\* the non-empty orders tables of at most MaxRows rows
SvcTables ==
    {OrdersAt(S) : S \in {T \in SUBSET DOMAIN SvcOrders :
                              T # {} /\ Cardinality(T) <= MaxRows}}

\* SpecSvc: any service calls one after the other, and entries expiring
InitSvc ==
    /\ QBIdle
    /\ ABIdle
    /\ ConcIdle
    /\ EnvIdle
    /\ SvcStart
    /\ \/ /\ db \in {MongoDb(ns) : ns \in SeqsUpTo(SvcNames, MaxRows)}
          /\ bq = [rows |-> <<>>, numeric |-> FALSE]
       \/ /\ db = EmptyDb
          /\ bq \in {[rows |-> rs, numeric |-> b] :
                        rs \in SvcTables, b \in BOOLEAN}

NextSvc ==
    \/ \E skip \in {0, 1}, code \in {Null} \cup SvcNames : get_states(skip, 1, code)
    \/ \E n \in SvcNames : get_brand_by_name(n)
    \/ get_cities
    \/ \E c \in SvcNames : get_city_metrics(c)
    \/ \E c \in {Null, Str(<<"A">>)} : search_retailers(Str(<<"a">>), c)
    \/ \E e \in cache : Expire(e.key)

SpecSvc == InitSvc /\ [][NextSvc]_vars

\* the documents the sales pipelines join against
FacetBase ==
    [EmptyDb EXCEPT
        !["lga_boundaries"] = LgaDocs(<<Str(<<"A">>), Str(<<"b">>)>>),
        !["brands"] = BrandDocs(<<Str(<<"A">>)>>),
        !["product_categories"] =
            <<NamedDoc(1, "product_category", Str(<<"A">>)),
              NamedDoc(2, "product_category", Str(<<"b">>))>>,
        !["periods"] = <<[_id |-> ObjectId(1), start_date |-> Date(1),
                          end_date |-> Date(2)]>>]

\* a metrics document of brand_boundaries_unit: its LGA (3 is in no
\* collection), its brand (2 is in no collection), and whether it carries
\* a period in date
MetricShapes ==
    {<<1, 1, FALSE>>, <<1, 1, TRUE>>, <<2, 1, FALSE>>, <<3, 1, FALSE>>, <<1, 2, FALSE>>}

MetricDoc(k, sh) ==
    [f \in {"_id", "lga", "brand", "state"} \cup (IF sh[3] THEN {"date"} ELSE {}) |->
        CASE f = "_id" -> ObjectId(k)
          [] f = "lga" -> ObjectId(sh[1])
          [] f = "brand" -> ObjectId(sh[2])
          [] f = "state" -> ObjectId(1)
          [] f = "date" -> ObjectId(1)]

\* a document of brand_category_boundaries_unit: a metrics document with the
\* product categories of its items
ItemShapes ==
    {<<1, 1, FALSE, <<1>>>>, <<1, 1, FALSE, <<1, 2>>>>, <<1, 1, TRUE, <<3>>>>,
     <<3, 1, FALSE, <<1>>>>, <<2, 1, FALSE, <<>>>>}

ItemDoc(k, sh) ==
    [f \in DOMAIN MetricDoc(k, sh) \cup {"items"} |->
        IF f = "items"
        THEN List([i \in DOMAIN sh[4] |-> Sub([product_category |-> ObjectId(sh[4][i])])])
        ELSE MetricDoc(k, sh)[f]]

FacetDbs ==
    {[FacetBase EXCEPT !["product_categories"] = docs] :
        docs \in NamedDocs("product_category")}
    \cup {[FacetBase EXCEPT !["brand_boundaries_unit"] =
              [k \in DOMAIN shs |-> MetricDoc(k, shs[k])]] :
            shs \in SeqsUpTo(MetricShapes, MaxRows)}
    \cup {[FacetBase EXCEPT !["brand_category_boundaries_unit"] =
              [k \in DOMAIN shs |-> ItemDoc(k, shs[k])]] :
            shs \in SeqsUpTo(ItemShapes, MaxRows)}

\* the page windows and filters requested
Skips == 0..2
Limits == 0..2
DateRanges == {<<Null, Null>>, <<Date(1), Date(2)>>, <<Date(2), Null>>}

\* lga_id and brand_id
SalesFilters == {<<Null, Null>>, <<OidStr(1), Null>>, <<Null, OidStr(1)>>}

\* the first call of a behaviour, or the last call again
FirstOrSame(op, args) == ncalls = 0 \/ (last.op = op /\ last.args = args)

\* SpecFacet: one request of a facet service, repeated
InitFacet ==
    /\ QBIdle
    /\ ABIdle
    /\ ConcIdle
    /\ EnvIdle
    /\ SvcStart
    /\ db \in FacetDbs
    /\ bq = [rows |-> <<>>, numeric |-> FALSE]

NextFacet ==
    \/ \E skip \in Skips, limit \in Limits, pc \in {Null, Str(<<"a">>)} :
          /\ FirstOrSame("get_categories", <<Num(skip), Num(limit), pc>>)
          /\ get_categories(skip, limit, pc)
    \/ \E skip \in Skips, limit \in Limits, dr \in DateRanges, f \in SalesFilters :
          /\ FirstOrSame("get_sales_metrics",
                         <<Num(skip), Num(limit), dr[1], dr[2], f[1], Null, f[2]>>)
          /\ get_sales_metrics(skip, limit, dr[1], dr[2], f[1], Null, f[2])
    \/ \E skip \in Skips, limit \in Limits, dr \in DateRanges, pc \in {Null, OidStr(1)} :
          /\ FirstOrSame("get_sales_metricsv2",
                         <<Num(skip), Num(limit), dr[1], dr[2], Null, Null, Null, pc>>)
          /\ get_sales_metricsv2(skip, limit, dr[1], dr[2], Null, Null, Null, pc)

SpecFacet == InitFacet /\ [][NextFacet]_vars

\* parameters and data chosen so that distinct invocations print alike
KeysOrders ==
    <<Order(<<"a", "_", "b">>, <<"c">>, 1, <<"c">>, 1),
      Order(<<"a">>, <<"b", "_", "c">>, 2, <<"b", "_", "c">>, 2)>>

NoneStr == Str(<<"N", "o", "n", "e">>)

KeysBrandNames ==
    {Str(<<"A">>),
     Str(<<"s", "_", "l", "i", "s", "t", "_", "0", "_", "1", "_", "N", "o", "n", "e">>)}

\* SpecKeys: service calls whose parameters hold the separator or "None"
InitKeys ==
    /\ QBIdle
    /\ ABIdle
    /\ ConcIdle
    /\ EnvIdle
    /\ SvcStart
    /\ db \in {MongoDb(ns) : ns \in {<<Str(<<"A">>), NoneStr>>, <<NoneStr>>}}
    /\ bq = [rows |-> KeysOrders, numeric |-> FALSE]

NextKeys ==
    \/ \E q \in {Str(<<"c">>), Str(<<"b", "_", "c">>)},
          c \in {Null, NoneStr, Str(<<"a">>), Str(<<"a", "_", "b">>)} :
          search_retailers(q, c)
    \/ \E c \in {Str(<<"a">>), Str(<<"a", "_", "b">>)},
          n \in {Str(<<"c">>), Str(<<"b", "_", "c">>)} :
          get_neighborhood_metrics(c, n)
    \/ \E n \in {Null, NoneStr} : get_brands(0, 1, n)
    \/ \E n \in KeysBrandNames : get_brand_by_name(n)

SpecKeys == InitKeys /\ [][NextKeys]_vars

\* the document the collection receives as its k-th
NewLga(k) ==
    [_id |-> ObjectId(k), lga_name |-> Str(<<"A">>), state_code |-> Str(<<"A">>),
     state_name |-> Str(<<"A">>)]

\* SpecConc: MaxReqs requests of get_lgas with the same parameters, their
\* cache and store calls interleaved in any order
InitConc ==
    /\ QBIdle
    /\ ABIdle
    /\ SvcIdle
    /\ db = EmptyDb
    /\ reqs = [r \in Reqs |-> NewReq]
    /\ written = <<>>
    /\ EnvIdle

NextConc ==
    \/ \E r \in Reqs : get_lgas_get_cached(r)
    \/ \E r \in Reqs : get_lgas_count(r)
    \/ \E r \in Reqs : get_lgas_page(r)
    \/ \E r \in Reqs : get_lgas_set_cached(r)
    \/ insert_one("lga_boundaries", NewLga(Len(db["lga_boundaries"]) + 1))
    \/ Expire(ConcKey)

SpecConc == InitConc /\ [][NextConc]_vars

\* SpecFail: service calls one after the other while the cache and the
\* stores fail and recover
InitFail ==
    /\ QBIdle
    /\ ABIdle
    /\ ConcIdle
    /\ SvcStart
    /\ EnvIdle
    /\ db = [MongoDb(<<Str(<<"A">>), Str(<<"b">>)>>) EXCEPT
                !["product_categories"] =
                    <<NamedDoc(1, "product_category", Str(<<"A">>))>>]
    /\ bq \in {[rows |-> SubSeq(SvcOrders, 1, 2), numeric |-> b] : b \in BOOLEAN}

NextFail ==
    \/ \E s \in SUBSET FaultPoints : Outage(s)
    \/ get_brands(0, 1, Null)
    \/ \E n \in {Str(<<"A">>), Str(<<"c">>)} : get_brand_by_name(n)
    \/ get_categories(0, 1, Null)
    \/ \E limit \in {0, 1} :
          get_sales_metricsv2(0, limit, Null, Null, Null, Null, Null, Null)
    \/ get_cities
    \/ search_retailers(Str(<<"a">>), Null)
    \/ \E e \in cache : Expire(e.key)

SpecFail == InitFail /\ [][NextFail]_vars

\* SpecRetry: one execute_query call, for every course of the backend over
\* the attempts
Scripts == UNION {[1..n -> Outcomes] : n \in 1..MaxAttempts}

InitRetry ==
    /\ QBIdle
    /\ db = EmptyDb
    /\ ABIdle
    /\ SvcIdle
    /\ ConcIdle
    /\ outage = {}
    /\ tq = NoQuery
    /\ loop = <<>>
    /\ eq \in {[status |-> "pending", script |-> sc] : sc \in Scripts}

NextRetry == execute_query

SpecRetry == InitRetry /\ [][NextRetry]_vars

\* SpecPage: the paginated services called with windows inside, at the end
\* of and past the data, and with limit 0
PageDb ==
    [FacetBase EXCEPT !["brand_boundaries_unit"] = <<MetricDoc(1, <<1, 1, FALSE>>)>>]

\* <<skip, limit>>
PageWindows == {<<0, 0>>, <<3, 0>>, <<20, 10>>, <<3, 2>>, <<1, 1>>}

InitPage ==
    /\ QBIdle
    /\ ABIdle
    /\ ConcIdle
    /\ SvcStart
    /\ EnvIdle
    /\ db = PageDb
    /\ bq = [rows |-> <<>>, numeric |-> FALSE]

NextPage ==
    \/ \E w \in PageWindows : get_brands(w[1], w[2], Null)
    \/ \E w \in PageWindows : get_categories(w[1], w[2], Null)
    \/ \E w \in PageWindows :
          get_sales_metrics(w[1], w[2], Null, Null, Null, Null, Null)
    \/ \E e \in cache : Expire(e.key)

SpecPage == InitPage /\ [][NextPage]_vars

\* SpecTime: one query of each kind, quick or slow
Durations == {1, QueryTimeout} \cup {QueryTimeout + k : k \in 1..MaxOver}

InitTime ==
    /\ QBIdle
    /\ db = EmptyDb
    /\ ABIdle
    /\ SvcIdle
    /\ ConcIdle
    /\ outage = {}
    /\ eq = NoQuery
    /\ loop = <<>>
    /\ tq \in {[kind |-> k, phase |-> FirstPhase(k), status |-> "running",
                 takes |-> [submit |-> s, rows |-> d], in_phase |-> 0,
                 waited |-> 0] :
                    k \in QueryKinds, s \in Durations, d \in Durations}

NextTime ==
    \/ query_wait
    \/ query_return
    \/ query_timeout

SpecTime == InitTime /\ [][NextTime]_vars

\* SpecLoop: MaxReqs requests in flight on the event loop of one worker
InitLoop ==
    /\ QBIdle
    /\ db = EmptyDb
    /\ ABIdle
    /\ SvcIdle
    /\ ConcIdle
    /\ outage = {}
    /\ eq = NoQuery
    /\ tq = NoQuery
    /\ loop \in {[r \in Reqs |-> [handler |-> hs[r], pc |-> 1, state |-> "ready"]] :
                    hs \in [Reqs -> Handlers]}

NextLoop ==
    \/ \E r \in Reqs : loop_begin_call(r)
    \/ \E r \in Reqs : loop_end_call(r)

SpecLoop == InitLoop /\ [][NextLoop]_vars

\* SpecQB: limit, skip and sort called in any order on one builder, then exec
QBSamples ==
    {c \in Collections : Len(c) = MaxDocs /\ \A k \in DOMAIN c : DOMAIN c[k] = {"_id"}}

InitQB ==
    /\ QBInit
    /\ collection \in QBSamples
    /\ db = EmptyDb
    /\ ABIdle
    /\ SvcIdle
    /\ ConcIdle
    /\ EnvIdle

NextQB ==
    \/ \E n \in 0..MaxDocs : QB_limit(n)
    \/ \E n \in 0..MaxDocs : QB_skip(n)
    \/ \E o \in {"None", "asc", "desc"} : QB_sort(o)
    \/ QB_exec

SpecQB == InitQB /\ [][NextQB]_vars

\* SpecPop: populate, then exec or exec_one, while the find or the fetch of
\* a field fails
PopSamples == {c \in Collections : Len(c) <= 1}

PopOutages == {{}, {"find"}, {"fetch_a"}, {"fetch_b"}, {"fetch_a", "fetch_b"}}

InitPop ==
    /\ QBInit
    /\ collection \in PopSamples
    /\ db = EmptyDb
    /\ ABIdle
    /\ SvcIdle
    /\ ConcIdle
    /\ EnvQuiet
    /\ outage \in PopOutages

NextPop ==
    \/ \E r \in PopulateCalls : QB_populate(r[1], r[2])
    \/ QB_exec
    \/ QB_exec_one

SpecPop == InitPop /\ [][NextPop]_vars

\* SpecDates: one sales request with a date range, repeated, over metrics
\* documents dated by one of two periods or not dated
DatePeriods ==
    <<[_id |-> ObjectId(1), start_date |-> Date(1), end_date |-> Date(2)],
      [_id |-> ObjectId(2), start_date |-> Date(3), end_date |-> Date(4)]>>

\* the k-th document of brand_boundaries_unit, dated by period p (0: no date)
DatedMetric(k, p) ==
    [f \in {"_id", "lga", "brand", "state"} \cup (IF p > 0 THEN {"date"} ELSE {}) |->
        CASE f = "_id" -> ObjectId(k)
          [] f = "lga" -> ObjectId(IF k = 2 THEN 2 ELSE 1)
          [] f = "date" -> ObjectId(p)
          [] OTHER -> ObjectId(1)]

\* the k-th document of brand_category_boundaries_unit, with one item
DatedItem(k, p) ==
    [f \in DOMAIN DatedMetric(k, p) \cup {"items"} |->
        IF f = "items" THEN List(<<Sub([product_category |-> ObjectId(1)])>>)
        ELSE DatedMetric(k, p)[f]]

DatedDbs ==
    {[FacetBase EXCEPT
        !["periods"] = DatePeriods,
        !["brand_boundaries_unit"] = [k \in DOMAIN ps |-> DatedMetric(k, ps[k])],
        !["brand_category_boundaries_unit"] =
            [k \in DOMAIN ps |-> DatedItem(k, ps[k])]] :
        ps \in SeqsUpTo(0..2, MaxRows)}

\* no range; ranges matching period 1, both periods, period 2; a range that
\* matches no period
RequestedRanges ==
    {<<Null, Null>>, <<Date(1), Date(2)>>, <<Null, Date(2)>>, <<Date(1), Null>>,
     <<Date(3), Date(4)>>, <<Date(5), Null>>}

InitDates ==
    /\ QBIdle
    /\ ABIdle
    /\ ConcIdle
    /\ EnvIdle
    /\ SvcStart
    /\ db \in DatedDbs
    /\ bq = [rows |-> <<>>, numeric |-> FALSE]

NextDates ==
    \/ \E dr \in RequestedRanges :
          /\ FirstOrSame("get_sales_metrics",
                         <<Num(0), Num(MaxRows), dr[1], dr[2], Null, Null, Null>>)
          /\ get_sales_metrics(0, MaxRows, dr[1], dr[2], Null, Null, Null)
    \/ \E dr \in RequestedRanges :
          /\ FirstOrSame("get_sales_metricsv2",
                         <<Num(0), Num(MaxRows), dr[1], dr[2], Null, Null, Null, Null>>)
          /\ get_sales_metricsv2(0, MaxRows, dr[1], dr[2], Null, Null, Null, Null)

SpecDates == InitDates /\ [][NextDates]_vars

\* SpecList: one request of a list service, repeated, for every window
\* inside, at the end of and past the matching documents
ListFilters == {Null, Str(<<"A">>)}

InitList ==
    /\ QBIdle
    /\ ABIdle
    /\ ConcIdle
    /\ EnvIdle
    /\ SvcStart
    /\ db \in {MongoDb(ns) : ns \in SeqsUpTo(NameValues, MaxRows)}
    /\ bq = [rows |-> <<>>, numeric |-> FALSE]

NextList ==
    \/ \E skip \in 0..(MaxRows + 1), limit \in 0..MaxRows, f \in ListFilters :
          /\ FirstOrSame("get_brands", <<Num(skip), Num(limit), f>>)
          /\ get_brands(skip, limit, f)
    \/ \E skip \in 0..(MaxRows + 1), limit \in 0..MaxRows, f \in ListFilters :
          /\ FirstOrSame("get_states", <<Num(skip), Num(limit), f>>)
          /\ get_states(skip, limit, f)
    \/ \E skip \in 0..(MaxRows + 1), limit \in 0..MaxRows, f \in ListFilters :
          /\ FirstOrSame("get_lgas", <<Num(skip), Num(limit), f>>)
          /\ get_lgas(skip, limit, f)

SpecList == InitList /\ [][NextList]_vars

\* SpecRoute: one request of a paginated route, repeated; page 0 and
\* page_size 0 are requested too and rejected by the validation
RoutePages == 0..MaxPage
RouteSizes == {0, 1, 2, 10}

\* the first request of a behaviour, or the window of the last call again
FirstOrSameWindow(op, page, page_size) ==
    \/ ncalls = 0
    \/ /\ last.op = op
       /\ last.args[1] = Num(RouteSkip(page, page_size))
       /\ last.args[2] = Num(page_size)

InitRoute == InitPage

NextRoute ==
    \/ \E page \in RoutePages, page_size \in RouteSizes :
          /\ FirstOrSameWindow("get_brands", page, page_size)
          /\ route_get_brands(page, page_size, Null)
    \/ \E page \in RoutePages, page_size \in RouteSizes :
          /\ FirstOrSameWindow("get_states", page, page_size)
          /\ route_get_states(page, page_size, Null)
    \/ \E page \in RoutePages, page_size \in RouteSizes :
          /\ FirstOrSameWindow("get_lgas", page, page_size)
          /\ route_get_lgas(page, page_size, Null)
    \/ \E page \in RoutePages, page_size \in RouteSizes :
          /\ FirstOrSameWindow("get_categories", page, page_size)
          /\ route_get_categories(page, page_size, Null)
    \/ \E page \in RoutePages, page_size \in RouteSizes :
          /\ FirstOrSameWindow("get_sales_metricsv2", page, page_size)
          /\ route_get_sales_metrics(page, page_size, Null, Null, Null, Null,
                                     Null, Null)

SpecRoute == InitRoute /\ [][NextRoute]_vars

-----------------------------------------------------------------------------
(* Claims about QueryBuilder.exec, checked under Spec *)

\* the target collections a field was registered with
TargetsOf(f) ==
    {_populate_fields[i][2] :
        i \in {j \in DOMAIN _populate_fields : _populate_fields[j][1] = f}}

\* the fields registered for population, each with one target collection
RegisteredFields == {f \in Fields : Cardinality(TargetsOf(f)) = 1}
TargetOf(f) == CHOOSE t \in TargetsOf(f) : TRUE

\* what identifier v resolves to in collection t
Resolved(v, t) == IF v.v \in store[t] THEN RefDoc(v.v, t) ELSE v

\* C2: for every document returned by exec() and every registered field whose
\* value is a list of identifiers, the populated value is a list of the same
\* length and order: position i holds the document fetched for identifier i
\* when it exists in the target collection, the raw identifier otherwise.
C2_ListPopulation ==
    qb_status = "ok" =>
        /\ Len(qb_out) = Len(qb_page)
        /\ \A k \in DOMAIN qb_out : \A f \in RegisteredFields :
              (f \in DOMAIN qb_page[k] /\ IsList(qb_page[k][f])) =>
                 /\ f \in DOMAIN qb_out[k]
                 /\ IsList(qb_out[k][f])
                 /\ Len(qb_out[k][f].items) = Len(qb_page[k][f].items)
                 /\ \A i \in DOMAIN qb_page[k][f].items :
                       qb_out[k][f].items[i] =
                           Resolved(qb_page[k][f].items[i], TargetOf(f))

\* a returned page in which a list [1, 2] of field a, registered for collection
\* a, came back as [document 1, raw identifier 2]
C2_Witness ==
    /\ qb_status = "ok"
    /\ "a" \in RegisteredFields /\ TargetOf("a") = "a"
    /\ \E k \in DOMAIN qb_out :
          /\ "a" \in DOMAIN qb_page[k]
          /\ qb_page[k]["a"] = List(<<Id(1), Id(2)>>)
          /\ qb_out[k]["a"] = List(<<RefDoc(1, "a"), Id(2)>>)

\* C3: for every document returned by exec() and every registered field whose
\* value is a single identifier, the value becomes the referenced document
\* when the identifier exists in the target collection and stays the raw
\* identifier when it does not.
C3_ScalarPopulation ==
    qb_status = "ok" =>
        \A k \in DOMAIN qb_out : \A f \in RegisteredFields :
            (f \in DOMAIN qb_page[k] /\ ~IsList(qb_page[k][f])) =>
                /\ f \in DOMAIN qb_out[k]
                /\ qb_out[k][f] = Resolved(qb_page[k][f], TargetOf(f))

\* a returned page with one scalar reference resolved to its document and
\* another left as the raw identifier
C3_Witness ==
    /\ qb_status = "ok"
    /\ "a" \in RegisteredFields
    /\ \E k, j \in DOMAIN qb_out :
          /\ "a" \in DOMAIN qb_page[k] /\ "a" \in DOMAIN qb_page[j]
          /\ qb_page[k]["a"].t = "id" /\ qb_out[k]["a"].t = "doc"
          /\ qb_page[j]["a"].t = "id" /\ qb_out[j]["a"] = qb_page[j]["a"]

\* the population round trips exec() issued for field f
RoundTripsFor(f) ==
    Cardinality({i \in DOMAIN qb_calls :
                    qb_calls[i].op = "find_in" /\ qb_calls[i].field = f})

\* C4: a field registered more than once (same field, same target, hence the
\* same candidate set) never causes more than one store round trip for that
\* field during one exec().
C4_OneRoundTripPerField ==
    \A f \in RegisteredFields : RoundTripsFor(f) <= 1

-----------------------------------------------------------------------------
(* Claims about AggregateBuilder, checked under SpecAgg *)

\* the stage a builder call stands for
ExpectedStage(call) ==
    IF call.m = "add_stage" THEN call.arg
    ELSE Stage("$" \o call.m, call.arg)

\* C5: for any sequence of AggregateBuilder calls the pipeline, and the
\* pipeline handed to the store by exec(), holds exactly one stage per call,
\* in call order: nothing reordered, merged, dropped or added.
C5_PipelineInCallOrder ==
    /\ Len(pipeline) = Len(ab_calls)
    /\ \A i \in DOMAIN ab_calls : pipeline[i] = ExpectedStage(ab_calls[i])
    /\ ab_status \in {"ok", "error"} =>
          ab_sent = [i \in DOMAIN ab_calls |-> ExpectedStage(ab_calls[i])]

\* match, group, sort, limit was called and executed in exactly that order
C5_Witness ==
    /\ ab_status = "ok"
    /\ [i \in DOMAIN ab_calls |-> ab_calls[i].m]
           = <<"match", "group", "sort", "limit">>
    /\ [i \in DOMAIN ab_sent |-> ab_sent[i].op]
           = <<"$match", "$group", "$sort", "$limit">>

-----------------------------------------------------------------------------
(* Claims about the cache layer, checked under SpecCache *)

\* the cache holds exactly value under key, with the process-wide TTL
Holds(key, value) ==
    /\ Cardinality({e \in cache : e.key = key}) = 1
    /\ JsonLoads(EntryOf(cache, key).text) = value
    /\ EntryOf(cache, key).ttl = REDIS_TTL

ShadowGet(key) ==
    IF \E x \in shadow : x.key = key
    THEN (CHOOSE x \in shadow : x.key = key).out ELSE Null

\* C7 (amended): after set_cached_data(key, value) completes with a non-empty
\* (truthy) value, the cache holds exactly value under key with the
\* process-wide TTL, replacing any previous entry; get_cached_data(key) returns
\* the last such value until the TTL elapses, and absent (None) for a key
\* never set or expired.  A set with an empty value changes nothing.
C7_SetThenGet ==
    /\ \A x \in shadow : Holds(x.key, x.out)
    /\ \A e \in cache : \E x \in shadow : x.key = e.key
    /\ (last.kind = "set" /\ last.ok /\ Truthy(last.args[1]))
           => Holds(last.key, last.args[1])
    /\ last.kind = "get" => last.out = ShadowGet(last.key)

\* the third operation read back the non-empty value the second one set
C7_Witness ==
    /\ prev.kind = "set" /\ prev.ok /\ Truthy(prev.args[1])
    /\ last.kind = "get" /\ last.key = prev.key
    /\ last.out = prev.args[1]
    /\ ncalls = 3
    /\ Holds(last.key, prev.args[1])

\* C7 (as claimed): after set_cached_data(key, value) completes the cache
\* holds exactly value under key with the process-wide TTL, for every value
\* passed, and get_cached_data returns it until the TTL elapses.
C7_AnyValue ==
    /\ (last.kind = "set" /\ last.ok) => Holds(last.key, last.args[1])
    /\ (prev.kind = "set" /\ prev.ok /\ last.kind = "get" /\ last.key = prev.key)
           => last.out = prev.args[1]

-----------------------------------------------------------------------------
(* Claims about the cache-aside services, checked under SpecSvc *)

\* the last two operations are the same service call with the same
\* parameters, both completed without failure
SameCallTwice ==
    /\ prev.kind = "call" /\ last.kind = "call"
    /\ prev.op = last.op /\ prev.args = last.args
    /\ prev.ok /\ last.ok

\* C1 (amended): if a cached service operation is called twice in a row with
\* identical parameters, without failure and before the TTL elapses, and the
\* first call returned a non-empty (truthy) result, the second call returns
\* exactly the value held in the cache after the first call and issues zero
\* store calls.
C1_NonEmptyIdempotence ==
    (SameCallTwice /\ Truthy(prev.out)) =>
        /\ last.hit
        /\ last.store_calls = 0
        /\ last.out = prev.out
        /\ last.out = RedisGetCached(cache, last.key)

\* a miss that computed a non-empty result, then the same call served from
\* the cache
C1_Witness ==
    /\ SameCallTwice
    /\ ~prev.hit /\ prev.store_calls > 0 /\ Truthy(prev.out)
    /\ last.hit /\ last.store_calls = 0

\* C1 (as claimed): for every operation and every parameter tuple the second
\* of two identical calls is served from the cache with zero store calls.
C1_Idempotence ==
    SameCallTwice =>
        /\ last.store_calls = 0
        /\ last.out = prev.out

\* C9: a completed call never returns a store-native value, and the value
\* returned on a cache hit equals the value the miss-path call returned when
\* it stored that entry.
C9_HitEqualsMiss ==
    (last.kind = "call" /\ last.ok) =>
        /\ ~HasNative(last.out)
        /\ last.hit => \E x \in returned : x.key = last.key /\ x.out = last.out

\* a hit on a list of documents whose identifiers were ObjectIds in the store
C9_Witness ==
    /\ last.kind = "call" /\ last.ok /\ last.hit
    /\ last.op = "get_states"
    /\ last.out.d.data.items # <<>>
    /\ \E x \in returned : x.key = last.key /\ x.out = last.out

-----------------------------------------------------------------------------
(* Claims about the facet services, checked under SpecFacet *)

\* the documents produced by the stages in front of the facet of the last call
UpstreamOfLast ==
    LET a == last.args
    IN  CASE last.op = "get_categories" ->
                 Aggregate(db, "product_categories", CategoriesUpstream(a[3])).docs
          [] last.op = "get_sales_metrics" ->
                 Aggregate(db, "brand_boundaries_unit",
                     SalesUpstream(PeriodIds(a[3], a[4]), a[5], a[6], a[7])).docs
          [] last.op = "get_sales_metricsv2" ->
                 Aggregate(db, "brand_category_boundaries_unit",
                     SalesV2Upstream(PeriodIds(a[3], a[4]), a[5], a[6], a[7], a[8])).docs

\* the page of the last call, cut from the upstream documents
WindowOfLast ==
    LET up == IF last.op = "get_categories"
              THEN SortBy(UpstreamOfLast, "product_category", 1)
              ELSE UpstreamOfLast
        page == LimitDocs(SkipDocs(up, last.args[1].n), last.args[2].n)
    IN  [i \in DOMAIN page |->
            IF last.op = "get_categories" THEN serialize_mongodb_doc(page[i])
            ELSE transform_aggregated_to_geojson(page[i])]

FacetOps == {"get_categories", "get_sales_metrics", "get_sales_metricsv2"}

\* C6: whenever a facet service returns a result, its total is the number of
\* documents produced by the stages upstream of the facet, whatever skip and
\* limit are, and its data holds the at most limit of those documents that
\* start at offset skip.
C6_FacetTotal ==
    (last.kind = "call" /\ last.ok /\ last.op \in FacetOps) =>
        /\ last.out.d.total = Num(Len(UpstreamOfLast))
        /\ Len(last.out.d.data.items) <= last.args[2].n
        /\ last.out.d.data.items = WindowOfLast

\* a page of one document out of two, starting after the first
C6_Witness ==
    /\ last.kind = "call" /\ last.ok /\ ~last.hit
    /\ last.op = "get_sales_metricsv2"
    /\ last.args[1] = Num(1) /\ last.args[2] = Num(1)
    /\ last.out.d.total = Num(2)
    /\ Len(last.out.d.data.items) = 1

-----------------------------------------------------------------------------
(* Claims about the cache keys, checked under SpecKeys *)

\* C10: two invocations that differ in the operation or in a parameter value
\* get different cache keys, and a request served from the cache is served a
\* result computed for its own operation and parameters.
C10_KeysInjective ==
    /\ (/\ prev.kind = "call" /\ last.kind = "call"
        /\ (prev.op # last.op \/ prev.args # last.args))
           => prev.key # last.key
    /\ (last.kind = "call" /\ last.hit) =>
           \E x \in returned :
               x.key = last.key /\ x.op = last.op /\ x.args = last.args

-----------------------------------------------------------------------------
(* Claims about concurrent misses, checked under SpecConc *)

\* a result with all of its four parts
CompleteResult(v) ==
    /\ v.t = "dict"
    /\ DOMAIN v.d = {"data", "total", "page", "page_size"}
    /\ v.d.data.t = "list"

AllDone == \A r \in Reqs : reqs[r].pc = "done"

\* C8: under any interleaving of requests that miss on the same key, every
\* finished request returns a complete result (its own when it missed), the
\* cache entry of the key is at every moment absent or equal to the whole
\* result one of the requests wrote, and once all have finished it is the
\* last writer's result.
C8_WholeValueLastWriter ==
    /\ \A r \in Reqs : reqs[r].pc = "done" =>
          /\ CompleteResult(reqs[r].out)
          /\ ~reqs[r].hit => reqs[r].out = reqs[r].result
    /\ \A e \in cache : e.key = ConcKey =>
          \E i \in DOMAIN written : JsonLoads(e.text) = written[i]
    /\ (AllDone /\ \E e \in cache : e.key = ConcKey) =>
          RedisGetCached(cache, ConcKey) = written[Len(written)]

\* two requests missed, computed different results and both wrote; the
\* entry is the second one's
C8_Witness ==
    /\ AllDone
    /\ Len(written) >= 2
    /\ written[1] # written[2]
    /\ \A r \in Reqs : ~reqs[r].hit
    /\ RedisGetCached(cache, ConcKey) = written[Len(written)]

-----------------------------------------------------------------------------
(* Failures of the store and of the cache *)

\* the store a service operation reads
BackendOf(op) ==
    IF op \in {"get_cities", "get_city_metrics", "search_retailers",
               "get_neighborhood_metrics"}
    THEN "bigquery" ELSE "mongo"

\* the last operation was a service call that got past the cache read and
\* found nothing usable there, so that it called its store
CalledStore ==
    /\ last.kind = "call"
    /\ "cache_get" \notin outage
    /\ ~last.hit

\* C11: a service operation whose store call fails ends in an error; it
\* never returns a normal result (an empty list, None, a zero total) in
\* place of the failure
C11_StoreFailureSurfaces ==
    (CalledStore /\ BackendOf(last.op) \in outage)
        => (~last.ok /\ last.out = Null)

\* a page was cached, the entry expired or the store went down, and the
\* next call of a store-backed operation failed at its store call
C11_Witness ==
    /\ CalledStore
    /\ BackendOf(last.op) \in outage
    /\ ~last.ok
    /\ last.store_calls = 1
    /\ cache # {}

\* C12: a cache failure is fatal to the operation: when the cache read
\* fails the operation ends in an error without any store call, and when
\* the write of a computed result fails the operation ends in an error and
\* the result is not returned (only an empty result, which is never
\* written, is returned while the cache cannot be written)
C12_CacheFailClosed ==
    last.kind = "call" =>
        /\ "cache_get" \in outage => (~last.ok /\ last.store_calls = 0)
        /\ ("cache_set" \in outage /\ last.ok /\ ~last.hit) => ~Truthy(last.out)
        /\ ~last.ok => last.out = Null

\* the store answered and the write of the result failed: the call ended in
\* an error after its store calls
C12_Witness ==
    /\ last.kind = "call"
    /\ outage = {"cache_set"}
    /\ ~last.ok
    /\ last.store_calls >= 1
    /\ prev.kind = "outage"

-----------------------------------------------------------------------------
(* QueryBuilder: failed population fetches, exec_one, and the options *)

\* exec() ran and the fetch of some registered field, issued for a page that
\* holds references in that field, was failing
FetchFailed ==
    /\ qb_calls # <<>>
    /\ qb_calls[1].op = "find"
    /\ \E i \in DOMAIN _populate_fields :
          /\ ("fetch_" \o _populate_fields[i][1]) \in outage
          /\ ref_ids(qb_page, _populate_fields[i][1]) # {}

\* C13: when the round trip that fetches the referenced documents of one
\* registered field fails, exec() as a whole fails and returns no document
\* list, neither unpopulated nor partially populated
C13_FailedFetchFailsExec ==
    FetchFailed => (qb_status \notin {"ok", "building"} /\ qb_out = <<>>)

\* the first field was fetched and substituted, the fetch of the second one
\* failed, and exec() returned nothing
C13_Witness ==
    /\ FetchFailed
    /\ qb_status = "StoreError"
    /\ Len(qb_calls) = 3
    /\ qb_out = <<>>

\* C17: exec_one() returns absent when no document matches, and otherwise
\* the matching document populated as exec() populates a one-element batch
C17_ExecOneAsOneElementBatch ==
    (qb_calls # <<>> /\ qb_calls[1].op = "find_one" /\ outage = {}) =>
        /\ qb_status = "ok"
        /\ qb_out = IF collection = <<>> THEN <<>>
                    ELSE ExecResult(<<collection[1]>>, 0, 0, "None",
                                    _populate_fields).docs

\* the argument of the last call of method in the log, or default
LastArg(method, default) ==
    LET at == {i \in DOMAIN qb_log : qb_log[i].method = method}
    IN  IF at = {} THEN default
        ELSE qb_log[CHOOSE i \in at : \A j \in at : j <= i].arg

\* C20: limit, skip and sort replace the option: after any sequence of
\* calls the builder holds, and exec() uses, the argument of the last call
\* of each kind, or 0, 0, None when there was none
C20_SettersOverwrite ==
    /\ _limit = LastArg("limit", 0)
    /\ _skip = LastArg("skip", 0)
    /\ _sort = LastArg("sort", "None")
    /\ qb_status = "ok" =>
          qb_page = get_documents(collection, LastArg("skip", 0),
                                  LastArg("limit", 0), LastArg("sort", "None"))

\* limit was called twice with different arguments and exec() returned as
\* many documents as the second call allows
C20_Witness ==
    /\ qb_status = "ok"
    /\ \E i, j \in DOMAIN qb_log :
          /\ i < j
          /\ qb_log[i].method = "limit" /\ qb_log[j].method = "limit"
          /\ qb_log[i].arg > qb_log[j].arg
          /\ qb_log[j].arg > 0
          /\ Len(qb_page) = qb_log[j].arg

-----------------------------------------------------------------------------
(* Retries of a store query *)

\* the backend temporarily unavailable or overloaded
Transient(o) == o \in {"ServerError", "BadGateway"}

\* the time slept before attempt k when every earlier attempt was retried
RECURSIVE SleptBefore(_)
SleptBefore(k) == IF k <= 1 THEN 0 ELSE SleptBefore(k - 1) + RetryDelay(k - 1)

\* the query fails with transient errors and would succeed at a later
\* attempt that backoff reaches within the deadline
SucceedsLater(script) ==
    \E k \in 2..Len(script) :
        /\ script[k] = "rows"
        /\ \A j \in 1..(k - 1) : Transient(script[j])
        /\ SleptBefore(k) <= RetryDeadline

\* C14: a query that fails with a transient error is issued again with
\* growing delays, so that a query that would succeed at a later attempt
\* within the deadline returns its result to the caller
C14_TransientRetried ==
    (eq.status \in {"ok", "error"} /\ SucceedsLater(eq.script))
        => (eq.status = "ok" /\ eq.tries > 1)

-----------------------------------------------------------------------------
(* Progress of the other requests during a call *)

\* a store or cache call of request r is in progress
InCall(r) == loop[r].state \in {"blocking", "offloaded"}

\* C16: while a store or cache call of one request is in progress, every
\* other request whose handler is ready to run can run: no call is executed
\* inline on the scheduler's thread
C16_CallsOffTheLoop ==
    \A r, o \in DOMAIN loop :
        (r # o /\ InCall(r) /\ loop[o].state = "ready") => ~LoopBlocked

-----------------------------------------------------------------------------
(* The time a caller waits for a query *)

\* C18: every store query returns or raises within the query timeout: the
\* caller never waits longer, and a query that takes longer ends in an error
C18_QueryWithinTimeout ==
    tq.status \in {"running", "ok", "error"} =>
        /\ tq.waited <= QueryTimeout
        /\ tq.status = "ok" => tq.takes["rows"] <= QueryTimeout

-----------------------------------------------------------------------------
(* Pagination arithmetic *)

PagedOps == {"get_brands", "get_states", "get_categories", "get_sales_metrics",
             "get_sales_metricsv2"}

\* C19: every paginated result reports page = skip // limit + 1 when
\* limit > 0 and 1 when limit = 0, and page_size = limit; a call fails only
\* where the store rejects the pipeline, never on the division
C19_PageNumber ==
    (last.kind = "call" /\ last.op \in PagedOps) =>
        LET skip == last.args[1].n
            limit == last.args[2].n
        IN  /\ last.ok =>
                  /\ last.out.d.page =
                        Num(IF limit > 0 THEN (skip \div limit) + 1 ELSE 1)
                  /\ last.out.d.page_size = Num(limit)
            /\ ~last.ok => (limit = 0 /\ last.op \in FacetOps)

\* skip = 20 and limit = 10 reported as page 3 by a facet service
C19_Witness ==
    /\ last.kind = "call"
    /\ last.ok
    /\ ~last.hit
    /\ last.op = "get_categories"
    /\ last.args[1] = Num(20)
    /\ last.args[2] = Num(10)
    /\ last.out.d.page = Num(3)
    /\ last.out.d.page_size = Num(10)

-----------------------------------------------------------------------------
(* Claims about the round trips and the frame of QueryBuilder.exec, checked *)
(* under Spec                                                               *)

\* the fields registered for population, with whatever target collections
PopulatedFields == {f \in Fields : TargetsOf(f) # {}}

\* the population round trips of the last exec()
FetchCalls == {i \in DOMAIN qb_calls : qb_calls[i].op = "find_in"}

\* C22: one exec() issues exactly 1 + k store round trips, k being the number
\* of registered fields whose candidate identifier set over the page is not
\* empty; each population round trip is one find on the field's target
\* collection for the identifiers of the candidate set.
C22_RoundTripsPerExec ==
    qb_status = "ok" =>
        /\ Len(qb_calls) =
              1 + Cardinality({f \in PopulatedFields : ref_ids(qb_page, f) # {}})
        /\ qb_calls[1].op = "find"
        /\ \A i \in FetchCalls :
              /\ qb_calls[i].coll \in TargetsOf(qb_calls[i].field)
              /\ qb_calls[i].ids = ref_ids(qb_page, qb_calls[i].field)

\* the registered fields that no document of the page contains
AbsentFields ==
    {f \in PopulatedFields : \A k \in DOMAIN qb_page : f \notin DOMAIN qb_page[k]}

\* C23: a registered field absent from every document of the page causes no
\* store round trip and leaves the documents as they are: the field stays
\* absent from the returned documents, and when every registered field is
\* absent exec() returns the page itself after the one find.
C23_AbsentFieldNoRoundTrip ==
    qb_status \notin {"building", "idle"} =>
        /\ \A f \in AbsentFields :
              /\ RoundTripsFor(f) = 0
              /\ \A k \in DOMAIN qb_out : f \notin DOMAIN qb_out[k]
        /\ AbsentFields = PopulatedFields =>
              /\ qb_status = "ok"
              /\ qb_out = qb_page
              /\ Len(qb_calls) = 1

\* exec() over a page of two documents without field b, b registered twice:
\* the page came back as found, after the find alone
C23_Witness ==
    /\ qb_status = "ok"
    /\ Len(_populate_fields) = 2
    /\ PopulatedFields = {"b"} /\ AbsentFields = {"b"}
    /\ Len(qb_page) = 2
    /\ \E k \in DOMAIN qb_page : "a" \in DOMAIN qb_page[k]
    /\ qb_out = qb_page
    /\ Len(qb_calls) = 1

\* C24: when the find of exec() yields no documents, exec() returns the empty
\* list and issues no population round trip, whatever fields are registered.
C24_EmptyPageNoPopulation ==
    (qb_status \notin {"building", "idle"} /\ qb_page = <<>>) =>
        /\ qb_status = "ok"
        /\ qb_out = <<>>
        /\ FetchCalls = {}
        /\ Len(qb_calls) = 1

\* exec() on an empty collection with two fields registered
C24_Witness ==
    /\ qb_status = "ok"
    /\ collection = <<>> /\ qb_page = <<>>
    /\ PopulatedFields = {"a", "b"}
    /\ qb_out = <<>>
    /\ Len(qb_calls) = 1

\* C28: exec() returns as many documents as the find produced, in the same
\* order, each with the fields it had; every field that is not registered
\* for population has exactly the value the find returned, and a registered
\* field a document does not contain is not added to it.
C28_PopulationFrame ==
    qb_status = "ok" =>
        /\ Len(qb_out) = Len(qb_page)
        /\ \A k \in DOMAIN qb_page :
              /\ DOMAIN qb_out[k] = DOMAIN qb_page[k]
              /\ \A f \in DOMAIN qb_page[k] :
                    f \notin PopulatedFields => qb_out[k][f] = qb_page[k][f]

\* a page of two documents, field a registered and b not: the first document's
\* reference a was replaced by its document and its b kept, the second has a
\* dangling reference a and came back as found
C28_Witness ==
    /\ qb_status = "ok"
    /\ PopulatedFields = {"a"}
    /\ Len(qb_page) = 2 /\ Len(qb_out) = 2
    /\ DOMAIN qb_page[1] = {"_id", "a", "b"}
    /\ qb_out[1]["a"].t = "doc"
    /\ qb_out[1]["b"] = qb_page[1]["b"]
    /\ "a" \in DOMAIN qb_page[2]
    /\ qb_out[2] = qb_page[2]

-----------------------------------------------------------------------------
(* Claims about the lifetime of a cache entry, checked under SpecConc *)

\* request r returns the cached entry at this step
HitStep(r) == reqs[r].pc = "start" /\ reqs'[r].pc = "done"

\* request r, on its miss path, writes its whole result at this step
MissWrite(r) ==
    /\ reqs[r].pc = "set" /\ reqs'[r].pc = "done"
    /\ ~reqs[r].hit
    /\ cache' = RedisSetex(cache, ConcKey, REDIS_TTL, JsonEncode(reqs[r].result))

\* Redis drops one entry at this step
ExpiryStep ==
    /\ ncalls' = ncalls + 1
    /\ last'.kind = "expire"
    /\ cache' = {e \in cache : e.key # last'.key}

\* C21: the cache changes only by the whole-value write of a miss path and
\* by TTL expiry; a cache hit writes nothing to the cache, makes no store
\* call and returns the entry as it is, and a modification of the store
\* leaves the cache as it is, so the entry is served unchanged until it
\* expires.
C21_NoInvalidation ==
    [][/\ cache' # cache => (ExpiryStep \/ \E r \in Reqs : MissWrite(r))
       /\ db' # db => cache' = cache
       /\ \A r \in Reqs : HitStep(r) =>
             /\ reqs'[r].hit
             /\ cache' = cache /\ db' = db
             /\ reqs'[r].total = 0 /\ reqs'[r].result = Null
             /\ reqs'[r].out = JsonLoads(EntryOf(cache, ConcKey).text)]_vars

\* a request was served from the cache the result another request computed
\* on its miss path, after documents were inserted into the collection: the
\* total it returned is below the number of documents in the store
C21_Witness ==
    \E r, q \in Reqs :
        /\ reqs[r].pc = "done" /\ reqs[r].hit
        /\ reqs[q].pc = "done" /\ ~reqs[q].hit
        /\ reqs[r].out = reqs[q].out
        /\ reqs[r].out = BaseGetCached(cache, ConcKey)
        /\ reqs[q].total < Len(db["lga_boundaries"])

-----------------------------------------------------------------------------
(* Claims about what the services write to the cache, checked under SpecSvc *)
(* and SpecFail                                                             *)

\* C25: the cache never holds an empty result: every entry decodes to a
\* non-empty value, and a call whose result is empty or not found (None, [],
\* {}) was not served from the cache, went to the store, and left no entry
\* under its key, so the next such call goes to the store again.
C25_NoEmptyEntry ==
    /\ \A e \in cache : Truthy(JsonLoads(e.text))
    /\ (last.kind = "call" /\ last.ok /\ ~Truthy(last.out)) =>
          /\ ~last.hit
          /\ last.store_calls > 0
          /\ ~\E e \in cache : e.key = last.key

\* the same call twice in a row, both with an empty result, both computed
\* against the store, and nothing cached under its key
C25_Witness ==
    /\ SameCallTwice
    /\ ~Truthy(prev.out) /\ ~Truthy(last.out)
    /\ prev.store_calls > 0 /\ last.store_calls > 0
    /\ ~prev.hit /\ ~last.hit
    /\ ~\E e \in cache : e.key = last.key

\* C26: a service operation that ends in an error leaves the cache as it
\* was: no entry is created, overwritten or removed by a call whose store
\* call, cache access or serialization failed.
C26_ErrorLeavesCache ==
    [][(ncalls' = ncalls + 1 /\ last'.kind = "call" /\ ~last'.ok)
          => cache' = cache]_vars

\* a call failed at its store while the cache held the entry of an earlier
\* call, and there is no entry under the key of the failed call
C26_Witness ==
    /\ last.kind = "call" /\ ~last.ok
    /\ last.store_calls > 0
    /\ cache # {}
    /\ ~\E e \in cache : e.key = last.key

-----------------------------------------------------------------------------
(* Claims about the date range of the sales services, checked under         *)
(* SpecDates                                                                *)

DatedOps == {"get_sales_metrics", "get_sales_metricsv2"}

\* the collection the last call aggregates
DatedColl ==
    IF last.op = "get_sales_metrics" THEN "brand_boundaries_unit"
    ELSE "brand_category_boundaries_unit"

\* the ids of the periods inside the date range of the last call
PeriodsInRange ==
    {db["periods"][i]["_id"] : i \in
        {j \in DOMAIN db["periods"] :
            /\ Truthy(last.args[3]) => db["periods"][j]["start_date"].v >= last.args[3].v
            /\ Truthy(last.args[4]) => db["periods"][j]["end_date"].v <= last.args[4].v}}

\* the database holding only the metrics documents dated by such a period
InRangeDb ==
    [db EXCEPT ![DatedColl] =
        SelectSeq(@, LAMBDA d : "date" \in DOMAIN d /\ d["date"] \in PeriodsInRange)]

\* the result of the last call's pipeline, without a date filter, over the
\* documents in range
InRangeResult ==
    LET a == last.args
        undated == Stage("$match", MetricsQuery(<<>>, a[5], a[6], a[7], FALSE))
        up == IF last.op = "get_sales_metrics"
              THEN <<undated>> \o Tail(SalesUpstream(<<>>, a[5], a[6], a[7]))
              ELSE SalesV2Upstream(<<>>, a[5], a[6], a[7], a[8])
        agg == Aggregate(InRangeDb, DatedColl,
                         up \o <<FacetStage(PageStages(a[1].n, a[2].n), "total")>>)
        data == FacetData(agg.docs)
    IN  PageResult([i \in DOMAIN data |-> transform_aggregated_to_geojson(data[i].d)],
                   FacetTotal(agg.docs, "total"), a[1].n, a[2].n)

\* C27: when a start_date and/or end_date is passed to get_sales_metrics or
\* get_sales_metricsv2, the result is the aggregation of the metrics
\* documents whose date references a period inside the range, and of no
\* other document; a range that matches no period gives empty data and
\* total 0.
C27_DateRangeFilters ==
    (/\ last.kind = "call" /\ last.ok /\ last.op \in DatedOps
     /\ HasPeriodQuery(last.args[3], last.args[4])) =>
        /\ last.out = InRangeResult
        /\ PeriodsInRange = {} =>
              /\ last.out.d.data = List(<<>>)
              /\ last.out.d.total = Num(0)

-----------------------------------------------------------------------------
(* Claims about the list services, checked under SpecList *)

ListOps == {"get_brands", "get_states", "get_lgas"}

\* the collection and the filter field of a list service
ListColl(op) ==
    CASE op = "get_brands" -> "brands"
      [] op = "get_states" -> "state_boundaries"
      [] op = "get_lgas" -> "lga_boundaries"

ListField(op) == IF op = "get_brands" THEN "brand_name" ELSE "state_code"

\* the number of documents matching the filter of the last call: the given
\* name or code, and without one every document (every brand with a name)
MatchingCount ==
    LET docs == db[ListColl(last.op)]
        f == last.args[3]
    IN  Cardinality({i \in DOMAIN docs :
            IF Truthy(f) THEN docs[i][ListField(last.op)] = f
            ELSE last.op = "get_brands" =>
                     docs[i]["brand_name"] \notin {Null, Str(<<"-">>)}})

Min(a, b) == IF a <= b THEN a ELSE b

\* C29: in get_brands, get_lgas and get_states the reported total is the
\* number of documents matching the filter whatever skip and limit are, and
\* for limit > 0 the data page has exactly min(limit, max(0, total - skip))
\* documents.
C29_TotalAndPageSize ==
    (last.kind = "call" /\ last.op \in ListOps) =>
        /\ last.ok
        /\ last.out.d.total = Num(MatchingCount)
        /\ last.args[2].n > 0 =>
              Len(last.out.d.data.items) =
                  Min(last.args[2].n,
                      IF MatchingCount > last.args[1].n
                      THEN MatchingCount - last.args[1].n ELSE 0)

\* get_brands(skip = 1, limit = 2) over two matching brands, read from the
\* store: total 2 and a page of one document
C29_Witness ==
    /\ last.kind = "call" /\ last.ok /\ ~last.hit
    /\ last.op = "get_brands"
    /\ last.args[1] = Num(1) /\ last.args[2] = Num(2)
    /\ MatchingCount = 2
    /\ last.out.d.total = Num(2)
    /\ Len(last.out.d.data.items) = 1

-----------------------------------------------------------------------------
(* Claims about the routes, checked under SpecRoute *)

\* the requests <<page, page_size>> for which the route calls its service
\* with the skip and limit of the last call
RequestsOfLast ==
    {w \in RoutePages \X RouteSizes :
        /\ ValidPage(w[1], w[2])
        /\ last.args[1] = Num(RouteSkip(w[1], w[2]))
        /\ last.args[2] = Num(w[2])}

\* C30: for every requested page >= 1 and page_size >= 1 the route calls the
\* service with skip = (page - 1) * page_size and limit = page_size, and the
\* result reports the requested page and the requested page_size.
C30_PageRoundTrip ==
    last.kind = "call" =>
        /\ last.ok
        /\ RequestsOfLast # {}
        /\ \A w \in RequestsOfLast :
              /\ last.out.d.page = Num(w[1])
              /\ last.out.d.page_size = Num(w[2])

\* GET /sales?page=3&page_size=2, computed from the store: skip 4, and the
\* result reports page 3 and page_size 2
C30_Witness ==
    /\ last.kind = "call" /\ last.ok /\ ~last.hit
    /\ last.op = "get_sales_metricsv2"
    /\ <<3, 2>> \in RequestsOfLast
    /\ last.args[1] = Num(4)
    /\ last.out.d.page = Num(3)
    /\ last.out.d.page_size = Num(2)

====
